---- MODULE Spec2Model ----
(***************************************************************************)
(* Model of the homelab Discord bot: the structured (slash) command        *)
(* handler of src/index.js, the legacy free-text handler kept in           *)
(* src/README.md, the status pipeline (buildStatusReport), the persisted   *)
(* external address and the scheduled daily report with its delivery path. *)
(*                                                                         *)
(* A handler is an async function: it runs without interruption up to an   *)
(* await, so every action below is one awaited operation (with its         *)
(* outcome) followed by the synchronous code up to the next await.         *)
(*                                                                         *)
(* Strings the code inspects character by character (addresses, the state  *)
(* file) are sequences of one-character strings; identifiers the code only *)
(* compares or embeds are TLA+ strings.                                    *)
(***************************************************************************)
EXTENDS FiniteSets, Integers, Sequences, TLC

VARIABLES
    allowedChannelId,   \* DISCORD_ALLOWED_CHANNEL_ID ("" when unset)
    allowedUserId,      \* DISCORD_ALLOWED_USER_ID ("" when unset)
    reportChannelId,    \* DISCORD_REPORT_CHANNEL_ID ("" when unset)
    routeData,          \* the host routing table, /proc/net/route
    file,               \* last_external_ip.txt: [exists, data]
    running,            \* container runtime: name -> is the container running
    task,               \* the handler invocations in flight, one record per slot
    errorTexts,         \* the texts the errors raised by the collaborators may carry
    probe,              \* a call of a pure function on its own: input, then result
    clock               \* the wall clock, the process and its daily schedule

vars == <<allowedChannelId, allowedUserId, reportChannelId, routeData, file, running, task,
          errorTexts, probe, clock>>
\* What no handler changes.
config == <<allowedChannelId, allowedUserId, reportChannelId, routeData, errorTexts, probe,
            clock>>

(***************************************************************************)
(* Values                                                                  *)
(***************************************************************************)
Unknown == <<"u", "n", "k", "n", "o", "w", "n">>   \* the 'unknown' sentinel
Null == <<"null">>       \* JS null/undefined: a token that is no character string
\* The external addresses the lookup service may report.
NumAddresses == 2
AddressPool == <<"1", "2", "3", "4">>
Addresses == {<<AddressPool[i]>> : i \in 1..NumAddresses}
Ip1 == <<"1">>
Ip2 == <<"2">>

Whitespace == {" ", "\n"}

RECURSIVE TrimStart(_)
TrimStart(s) == IF s # <<>> /\ Head(s) \in Whitespace THEN TrimStart(Tail(s)) ELSE s

RECURSIVE TrimEnd(_)
TrimEnd(s) ==
    IF s # <<>> /\ s[Len(s)] \in Whitespace THEN TrimEnd(SubSeq(s, 1, Len(s) - 1)) ELSE s

\* String.prototype.trim
Trim(s) == TrimEnd(TrimStart(s))

\* The slots a handler invocation can occupy.
Slots == {1, 2}

\* localeCompare on the names of ContainerPool.
NameRank(n) == CASE n = "cache" -> 1 [] n = "db" -> 2 [] n = "proxy" -> 3 [] n = "web" -> 4
Precedes(n, m) == NameRank(n) <= NameRank(m)

\* Containers known to the runtime, in localeCompare order.
NumContainers == 1
ContainerPool == <<"web", "db", "cache", "proxy">>
RECURSIVE SortedNames(_)
SortedNames(names) ==
    IF names = {} THEN <<>>
    ELSE LET first == CHOOSE n \in names : \A m \in names : Precedes(n, m)
         IN  <<first>> \o SortedNames(names \ {first})
ContainerNames == SortedNames({ContainerPool[i] : i \in 1..NumContainers})
Containers == {ContainerNames[i] : i \in 1..Len(ContainerNames)}

\* Inputs of an inbound command.
Channels == {"c1", "c2"}
Users == {"u1", "u2"}
Targets == {"", "web", "nope"}         \* "" is an empty (falsy) container argument
CommandSet == {"help", "ping", "status", "containers", "uptime", "ip",
               "restart", "stop", "start", "logs"}
CommandNames == CommandSet \cup {"bogus"}

\* Bodies the public IP-echo endpoint may answer with.
Bodies == Addresses \cup {<<" ", "2", "\n">>, <<>>, <<"\n">>, Unknown}
Responses ==
    {[rejected |-> TRUE, ok |-> FALSE, text |-> <<>>],
     [rejected |-> FALSE, ok |-> FALSE, text |-> <<>>]}
    \cup {[rejected |-> FALSE, ok |-> TRUE, text |-> b] : b \in Bodies}

\* Routing tables, /proc/net/route: whether the file can be read and its
\* lines (routeData.trim().split('\n')), each line as its fields
\* (line.trim().split(/\s+/)), each field as its characters.
DefaultDestination == <<"0", "0", "0", "0", "0", "0", "0", "0">>
HeaderLine == <<<<"I", "f">>, <<"D", "e", "s", "t">>, <<"G", "w">>>>
SubnetLine == <<<<"e", "0">>, <<"0", "0", "0", "8", "A", "8", "C", "0">>, DefaultDestination>>
DefaultLine == <<<<"e", "0">>, DefaultDestination, <<"0", "1", "0", "1", "0", "8", "0", "A">>>>

\* The tables of the handlers' runs: unreadable, or with a default route.
RouteTables ==
    {[readable |-> FALSE, lines |-> <<>>],
     [readable |-> TRUE, lines |-> <<HeaderLine, SubnetLine, DefaultLine>>]}

(***************************************************************************)
(* Pure functions of the program                                           *)
(***************************************************************************)
\* isValidExternalIp: Boolean(ipAddress) && ipAddress !== 'unknown'
isValidExternalIp(ipAddress) ==
    (ipAddress # Null /\ ipAddress # <<>>) /\ ipAddress # Unknown

\* getExternalIpAddress, given what the fetch produced.
getExternalIpAddress(response) ==
    IF response.rejected \/ ~response.ok
    THEN Unknown
    ELSE LET ipAddress == Trim(response.text)
         IN  IF ipAddress # <<>> THEN ipAddress ELSE Unknown

\* readLastExternalIp, given the file and whether the read raises an I/O error
\* other than ENOENT (a missing file raises ENOENT).
readLastExternalIp(f, ioError) ==
    IF ioError \/ ~f.exists
    THEN Null
    ELSE LET trimmed == Trim(f.data)
         IN  IF Len(trimmed) # 0 THEN trimmed ELSE Null

\* The data writeLastExternalIp hands to writeFile: `${ipAddress}\n`.
StateFileData(ipAddress) == Append(ipAddress, "\n")

\* A write that leaves an existing file alone (the first writer's value stays).
writeKeepingExisting(f, ipAddress, ioError) ==
    IF ioError \/ f.exists THEN f ELSE [exists |-> TRUE, data |-> StateFileData(ipAddress)]

\* writeLastExternalIp: the file after the call; a failed write is logged and
\* leaves the file as it was.
writeLastExternalIp(f, ipAddress, ioError) ==
    IF ioError THEN f ELSE [exists |-> TRUE, data |-> StateFileData(ipAddress)]

\* A change flag that forgets to check that a previous address was read.
ExternalIpChangedIgnoringPrevious(externalIp, lastExternalIp) ==
    isValidExternalIp(externalIp) /\ externalIp # lastExternalIp

\* buildStatusReport, lines 180-183: the change flag.
ExternalIpChanged(externalIp, lastExternalIp) ==
    /\ isValidExternalIp(externalIp)
    /\ isValidExternalIp(lastExternalIp)
    /\ externalIp # lastExternalIp

\* A persist condition that rewrites the file on every valid reading.
ShouldPersistWheneverValid(externalIp, lastExternalIp) ==
    isValidExternalIp(externalIp)

\* A persist condition that forgets to check the reading itself.
ShouldPersistAnyReading(externalIp, lastExternalIp) ==
    ExternalIpChanged(externalIp, lastExternalIp) \/ ~isValidExternalIp(lastExternalIp)

\* buildStatusReport, line 184: whether the cycle calls writeLastExternalIp.
ShouldPersist(externalIp, lastExternalIp) ==
    /\ isValidExternalIp(externalIp)
    /\ (ExternalIpChanged(externalIp, lastExternalIp) \/ ~isValidExternalIp(lastExternalIp))

\* The hexadecimal digits and their values.
UpperHex == <<"0", "1", "2", "3", "4", "5", "6", "7", "8", "9", "A", "B", "C", "D", "E", "F">>
LowerHex == <<"0", "1", "2", "3", "4", "5", "6", "7", "8", "9", "a", "b", "c", "d", "e", "f">>
IsHex(c) == \E i \in 1..16 : UpperHex[i] = c \/ LowerHex[i] = c
HexValue(c) == (CHOOSE i \in 1..16 : UpperHex[i] = c \/ LowerHex[i] = c) - 1

\* parseInt(byte, 16) on a text without sign, blank or 0x prefix: the value of
\* its longest prefix of hex digits, NaN when that prefix is empty; then the
\* text join('.') makes of the number.
RECURSIVE HexPrefix(_, _)
HexPrefix(text, value) ==
    IF text = <<>> \/ ~IsHex(Head(text)) THEN value
    ELSE HexPrefix(Tail(text), 16 * value + HexValue(Head(text)))
ParseHex(text) ==
    IF text = <<>> \/ ~IsHex(Head(text)) THEN "NaN" ELSE ToString(HexPrefix(text, 0))

\* String.prototype.substring(from, to) for 0 <= from <= to.
Substring(text, from, to) ==
    SubSeq(text, (IF from < Len(text) THEN from ELSE Len(text)) + 1,
                 IF to < Len(text) THEN to ELSE Len(text))

\* The same without the reverse().
hexToIpInFileOrder(hexString) ==
    [k \in 1..4 |-> ParseHex(Substring(hexString, 2 * (k - 1), 2 * k))]

\* hexToIp: four groups of two characters, each parsed, reversed (and joined
\* with '.').
hexToIp(hexString) ==
    LET bytes == [k \in 1..4 |-> Substring(hexString, 2 * (k - 1), 2 * k)]
        parsed == [k \in 1..4 |-> ParseHex(bytes[k])]
    IN  [k \in 1..4 |-> parsed[5 - k]]

\* The for loop of getGatewayIpAddress: parts[1] and parts[2] are undefined
\* on a line with fewer fields.
RECURSIVE FirstDefaultRoute(_)
FirstDefaultRoute(lines) ==
    IF lines = <<>> THEN Unknown
    ELSE LET parts == Head(lines)
             destination == IF Len(parts) >= 2 THEN parts[2] ELSE Null
             gateway == IF Len(parts) >= 3 THEN parts[3] ELSE Null
         IN  IF destination = DefaultDestination /\ gateway # Null /\ gateway # <<>>
             THEN hexToIp(gateway)
             ELSE FirstDefaultRoute(Tail(lines))

\* getGatewayIpAddress: 'unknown' when the table cannot be read (the catch
\* block) or no line after the first has a default route; slice(1) drops the
\* first line.
getGatewayIpAddress(route) ==
    IF ~route.readable THEN Unknown
    ELSE FirstDefaultRoute(IF route.lines = <<>> THEN <<>> ELSE Tail(route.lines))

\* A duration text that shows the seconds whenever they are not zero.
formatDurationWithSeconds(milliseconds) ==
    LET floored == milliseconds \div 1000
        totalSeconds == IF floored > 0 THEN floored ELSE 0
        all == <<[value |-> totalSeconds \div 86400, unit |-> "d"],
                 [value |-> (totalSeconds % 86400) \div 3600, unit |-> "h"],
                 [value |-> (totalSeconds % 3600) \div 60, unit |-> "m"],
                 [value |-> totalSeconds % 60, unit |-> "s"]>>
        parts == SelectSeq(all, LAMBDA part : part.value # 0)
    IN  IF parts = <<>> THEN <<[value |-> 0, unit |-> "s"]>> ELSE parts

\* formatDuration: the parts of the text it returns, which join(' ') puts
\* together ('1d 1h' is <<[1, "d"], [1, "h"]>>). \div rounds down, as
\* Math.floor does.
formatDuration(milliseconds) ==
    LET floored == milliseconds \div 1000
        totalSeconds == IF floored > 0 THEN floored ELSE 0
        days == totalSeconds \div 86400
        hours == (totalSeconds % 86400) \div 3600
        minutes == (totalSeconds % 3600) \div 60
        seconds == totalSeconds % 60
        larger == SelectSeq(<<[value |-> days, unit |-> "d"],
                              [value |-> hours, unit |-> "h"],
                              [value |-> minutes, unit |-> "m"]>>,
                            LAMBDA part : part.value # 0)
    IN  IF Len(larger) = 0 THEN <<[value |-> seconds, unit |-> "s"]>> ELSE larger

\* docker.listContainers({status: running}) followed by the sort by name.
RECURSIVE RunningIn(_, _)
RunningIn(names, isRunning) ==
    IF names = <<>> THEN <<>>
    ELSE IF isRunning[Head(names)]
         THEN <<Head(names)>> \o RunningIn(Tail(names), isRunning)
         ELSE RunningIn(Tail(names), isRunning)

\* formatStatusReport: header fields and one line per container, or the
\* placeholder line (the lists of this model always fit the 1900 budget).
formatStatusReport(gatewayIp, externalIp, containers) ==
    [kind |-> "status", gatewayIp |-> gatewayIp, externalIp |-> externalIp,
     count |-> Len(containers),
     lines |-> IF Len(containers) = 0 THEN <<"(no running containers)">> ELSE containers]

\* The `lines` option of the logs command: getInteger returns null when the
\* option is absent; a text stands for any value that does not parse.
NoLines == [kind |-> "absent", value |-> 0]
LineRequests ==
    {NoLines, [kind |-> "text", value |-> 0]}
        \cup {[kind |-> "int", value |-> n] : n \in {-1, 0, 1, 25, 49, 50, 51, 75}}

DefaultLogLines == 10
MaxLogLines == 50

\* Number.parseInt(linesArg, 10): NaN for null and for a text without digits.
ParseInt(linesArg) ==
    IF linesArg.kind = "int" THEN [finite |-> TRUE, value |-> linesArg.value]
    ELSE [finite |-> FALSE, value |-> 0]

\* A normalization that passes every number that parses through.
normalizeRequestedLogLinesUnclamped(linesArg) ==
    LET parsed == ParseInt(linesArg)
    IN  IF ~parsed.finite THEN [lines |-> DefaultLogLines, maxEnforced |-> FALSE]
        ELSE [lines |-> parsed.value, maxEnforced |-> parsed.value > MaxLogLines]

\* normalizeRequestedLogLines
normalizeRequestedLogLines(linesArg) ==
    LET parsed == ParseInt(linesArg)
    IN  IF ~parsed.finite \/ parsed.value <= 0
        THEN [lines |-> DefaultLogLines, maxEnforced |-> FALSE]
        ELSE IF parsed.value >= MaxLogLines
        THEN [lines |-> MaxLogLines, maxEnforced |-> TRUE]
        ELSE [lines |-> parsed.value, maxEnforced |-> FALSE]

\* Log output is long: a text is a sequence of runs, each one character
\* repeated n >= 1 times, adjacent runs of different characters.
Run(ch, n) == [ch |-> ch, n |-> n]
RECURSIVE Length(_)
Length(text) == IF text = <<>> THEN 0 ELSE Head(text).n + Length(Tail(text))

\* String.prototype.trimEnd / trim on runs.
RECURSIVE TrimEndRuns(_)
TrimEndRuns(text) ==
    IF text # <<>> /\ text[Len(text)].ch \in Whitespace
    THEN TrimEndRuns(SubSeq(text, 1, Len(text) - 1))
    ELSE text
RECURSIVE TrimStartRuns(_)
TrimStartRuns(text) ==
    IF text # <<>> /\ Head(text).ch \in Whitespace THEN TrimStartRuns(Tail(text)) ELSE text
TrimRuns(text) == TrimEndRuns(TrimStartRuns(text))

\* message.slice(message.length - maxLength): the last maxLength characters.
RECURSIVE Suffix(_, _)
Suffix(text, maxLength) ==
    IF maxLength = 0 \/ text = <<>> THEN <<>>
    ELSE LET last == text[Len(text)]
         IN  IF last.n >= maxLength THEN <<Run(last.ch, maxLength)>>
             ELSE Append(Suffix(SubSeq(text, 1, Len(text) - 1), maxLength - last.n), last)

\* The first maxLength characters.
RECURSIVE FirstChars(_, _)
FirstChars(text, maxLength) ==
    IF maxLength = 0 \/ text = <<>> THEN <<>>
    ELSE IF Head(text).n >= maxLength THEN <<Run(Head(text).ch, maxLength)>>
         ELSE <<Head(text)>> \o FirstChars(Tail(text), maxLength - Head(text).n)

\* A truncation that keeps the beginning of the message.
truncateKeepingStart(message, maxLength) ==
    IF Length(message) <= maxLength THEN message ELSE FirstChars(message, maxLength)

\* truncateForDiscord
truncateForDiscord(message, maxLength) ==
    IF Length(message) <= maxLength THEN message ELSE Suffix(message, maxLength)

MaxMessageLength == 1900
CodeFenceLength == 8     \* the opening and closing fence with their line breaks
NoticeLength == 56       \* 'Showing the most recent 50 log lines (maximum allowed).' and a line break

Max(a, b) == IF a >= b THEN a ELSE b

\* getContainerLogs, lines 291-297: the reply for a log output that is not
\* blank.
LogsReply(logText, maxEnforced) ==
    LET notice == IF maxEnforced THEN NoticeLength ELSE 0
        availableForLogs == Max(0, MaxMessageLength - notice - CodeFenceLength)
        trimmedLogs == truncateForDiscord(TrimEndRuns(logText), availableForLogs)
    IN  [kind |-> "logs", notice |-> maxEnforced, text |-> trimmedLogs,
         length |-> notice + CodeFenceLength + Length(trimmedLogs)]

\* The size of a status report. The reports of the handlers above are short;
\* the layout of formatStatusReport, lines 361-383, is computed here on the
\* lengths of the texts, so that reports around the budget can be laid out.
HeaderFixedLength == 108      \* the header template without its three values
PlaceholderLength == 23       \* '(no running containers)'
TruncationFixedLength == 10   \* the summary line without its number
ReportBudget == 1900          \* maxLength

\* The number of decimal digits of a natural number (String(n).length).
RECURSIVE Digits(_)
Digits(n) == IF n < 10 THEN 1 ELSE 1 + Digits(n \div 10)

\* The for loop over formattedContainers, from `index` on (counted from 1):
\* `formatted` are the lengths of the lines, `lines` the indices of the lines
\* pushed so far and `used` their length, joined.
RECURSIVE Fill(_, _, _, _, _)
Fill(formatted, index, lines, used, available) ==
    IF index > Len(formatted)
    THEN [shown |-> lines, summary |-> FALSE, remaining |-> 0, joined |-> used]
    ELSE LET separator == IF Len(lines) > 0 THEN 1 ELSE 0
             lineLength == separator + formatted[index]
         IN  IF used + lineLength > available
             THEN LET remaining == Len(formatted) - (index - 1)
                      truncationLength == separator + TruncationFixedLength + Digits(remaining)
                  IN  IF used + truncationLength <= available
                      THEN [shown |-> lines, summary |-> TRUE, remaining |-> remaining,
                            joined |-> used + truncationLength]
                      ELSE [shown |-> lines, summary |-> FALSE, remaining |-> remaining,
                            joined |-> used]
             ELSE Fill(formatted, index + 1, Append(lines, index), used + lineLength,
                       available)

\* formatStatusReport on lengths: the layout and the length of the text it
\* returns, for a gateway and an external address of the given lengths and
\* one container line of each given length. `shown` are the indices of the
\* lines of formattedContainers in the text, `count` is the number the header
\* prints and `placeholder` tells that the only line offered was the
\* placeholder.
ReportLayout(gatewayLength, externalLength, containerLines) ==
    LET headerLength == HeaderFixedLength + gatewayLength + externalLength
                        + Digits(Len(containerLines))
        formattedContainers == IF Len(containerLines) = 0 THEN <<PlaceholderLength>>
                               ELSE containerLines
        available == ReportBudget - headerLength - 1
        filled == Fill(formattedContainers, 1, <<>>, 0, available)
    IN  [shown |-> filled.shown, kept |-> Len(filled.shown), summary |-> filled.summary,
         remaining |-> filled.remaining,
         offered |-> Len(formattedContainers),
         count |-> Len(containerLines),
         placeholder |-> Len(containerLines) = 0,
         length |-> headerLength + 1 + filled.joined]

\* sendExternalIpChangeAlert: the alert text.
AlertMessage(previousIp, currentIp) ==
    [kind |-> "alert", previousIp |-> previousIp, currentIp |-> currentIp]

\* Fixed replies.
Fixed(text) == [kind |-> "fixed", text |-> text]
StatusUnavailable == Fixed("Unable to read container status right now.")

(***************************************************************************)
(* Messages                                                                *)
(***************************************************************************)
NoMessage == [kind |-> "none"]
NoReport == [kind |-> "none"]

\* HELP_TEXT of the structured handler (index.js) and of the free-text
\* handler (README.md): the commands listed and the argument placeholder.
HELP_TEXT(surface) ==
    IF surface = "slash"
    THEN [kind |-> "help", prefix |-> "/", commands |-> CommandSet,
          argument |-> "<container>"]
    ELSE [kind |-> "help", prefix |-> "!", commands |-> CommandSet \ {"logs"},
          argument |-> "<container-name>"]

Pong == Fixed("Hello there!")
UnknownCommand == Fixed("Unknown command.")
NoContainers == Fixed("No running containers found.")
ListUnavailable == Fixed("Unable to list running containers right now.")
UptimeUnavailable == Fixed("Unable to read uptime right now.")
IpUnavailable == Fixed("Unable to read host IP right now.")

Prefix(surface) == IF surface = "slash" THEN "/" ELSE "!"
Usage(surface, cmd) == [kind |-> "usage", prefix |-> Prefix(surface), cmd |-> cmd]
Named(kind, name) == [kind |-> kind, name |-> name]

(***************************************************************************)
(* Handler invocations                                                     *)
(***************************************************************************)
\* pc: the await the invocation is suspended at ("done": returned,
\* "failed": its promise rejected). dispatched: the handler reached its
\* switch on the command name. obs: the calls it made on its collaborators
\* (platform, runtime, file, delivery), in order.
IdleTask ==
    [pc |-> "idle", surface |-> "none", cmd |-> "", target |-> "",
     channelId |-> "", userId |-> "", eligible |-> FALSE, optionPresent |-> FALSE,
     linesArg |-> NoLines, lines |-> 0, maxEnforced |-> FALSE,
     dispatched |-> FALSE,
     gatewayIp |-> Null, externalIp |-> Null, lastExternalIp |-> Null,
     externalIpChanged |-> FALSE, summaries |-> <<>>, statusReport |-> NoReport,
     message |-> NoMessage, via |-> "", next |-> "", rescue |-> NoMessage,
     obs |-> <<>>]

Free(s) == task[s].pc = "idle"

Log(t, event) == [t EXCEPT !.obs = Append(@, event)]
Goto(t, pc) == [t EXCEPT !.pc = pc]

\* The text of the error a call raised ("" when it raised none): what the
\* catch blocks receive and write to the console.
Details(failed) == IF failed THEN errorTexts ELSE {""}

\* interaction.reply / interaction.editReply / message.reply is called with
\* `message`; the handler resumes at `next` when the call resolves. A call made
\* inside a try block is followed, when it rejects, by the catch block's reply
\* `rescue`.
RespondOr(t, via, message, next, rescue) ==
    [t EXCEPT !.pc = "respond", !.via = via, !.message = message, !.next = next,
              !.rescue = rescue]
Respond(t, via, message, next) == RespondOr(t, via, message, next, NoMessage)

\* The reply call of a surface once the reply was deferred (structured) or
\* not (free-text).
EditVia(surface) == IF surface = "slash" THEN "editReply" ELSE "reply"

\* A gate that checks the channel only.
PassesGateChannelOnly(channelId, userId) ==
    ~(allowedChannelId # "" /\ channelId # allowedChannelId)

\* The authorization gate shared by both handlers (index.js 72-73,
\* README.md 196-197).
PassesGate(channelId, userId) ==
    /\ ~(allowedChannelId # "" /\ channelId # allowedChannelId)
    /\ ~(allowedUserId # "" /\ userId # allowedUserId)

TargetCommands == {"restart", "stop", "start", "logs"}
DeferredCommands == {"status", "containers", "restart", "stop", "start", "logs"}

\* A switch whose containers and uptime cases build the whole status report
\* to get at the container list.
RunCommandListingViaReport(t) ==
    CASE t.cmd \in {"status", "containers", "uptime"} -> Goto(t, "lookup")
      [] t.cmd \in TargetCommands ->
            IF t.surface = "slash" /\ ~t.optionPresent THEN Goto(t, "failed")
            ELSE IF t.cmd = "logs"
            THEN LET normalized == normalizeRequestedLogLines(t.linesArg)
                 IN  Goto([t EXCEPT !.lines = normalized.lines,
                                    !.maxEnforced = normalized.maxEnforced], "logsInspect")
            ELSE IF t.target = ""
            THEN Respond(t, EditVia(t.surface), Usage(t.surface, t.cmd), "done")
            ELSE IF t.cmd = "restart" THEN Goto(t, "restart")
            ELSE Goto(t, "inspect")

\* The structured handler's switch after deferReply resolved, and for the
\* commands that do not defer: up to its next await.
\* getString('container', true) throws when the option is absent.
RunCommand(t) ==
    CASE t.cmd = "status" -> Goto(t, "lookup")
      [] t.cmd \in {"containers", "uptime"} -> Goto(t, "list")
      [] t.cmd \in TargetCommands ->
            IF t.surface = "slash" /\ ~t.optionPresent THEN Goto(t, "failed")
            ELSE IF t.cmd = "logs"
            THEN LET normalized == normalizeRequestedLogLines(t.linesArg)
                 IN  Goto([t EXCEPT !.lines = normalized.lines,
                                    !.maxEnforced = normalized.maxEnforced], "logsInspect")
            ELSE IF t.target = ""
            THEN Respond(t, EditVia(t.surface), Usage(t.surface, t.cmd), "done")
            ELSE IF t.cmd = "restart" THEN Goto(t, "restart")
            ELSE Goto(t, "inspect")

\* client.on(Events.InteractionCreate): the synchronous prefix of the handler.
DispatchInteraction(t0) ==
    IF ~t0.eligible \/ ~PassesGate(t0.channelId, t0.userId) THEN Goto(t0, "done")
    ELSE LET t == [t0 EXCEPT !.dispatched = TRUE] IN
         CASE t.cmd = "help" -> Respond(t, "reply", HELP_TEXT("slash"), "done")
           [] t.cmd = "ping" -> Respond(t, "reply", Pong, "done")
           [] t.cmd \in DeferredCommands -> Goto(t, "defer")
           [] t.cmd = "uptime" -> RunCommand(t)
           [] t.cmd = "ip" ->
                RespondOr(t, "reply",
                          [kind |-> "ip", gatewayIp |-> getGatewayIpAddress(routeData)],
                          "done", IpUnavailable)
           [] OTHER -> Respond(t, "reply", UnknownCommand, "done")

\* A free-text handler whose default case answers like the structured one.
DispatchMessageRejectingUnknown(t0) ==
    IF ~t0.eligible \/ ~PassesGate(t0.channelId, t0.userId) THEN Goto(t0, "done")
    ELSE LET t == [t0 EXCEPT !.dispatched = TRUE] IN
         IF t.cmd \in {"restart", "stop", "start"} /\ t.target # ""
         THEN Goto(t, IF t.cmd = "restart" THEN "restart" ELSE "inspect")
         ELSE Respond(t, "reply", UnknownCommand, "done")

\* client.on('messageCreate'): the synchronous prefix of the free-text handler.
DispatchMessage(t0) ==
    IF ~t0.eligible \/ ~PassesGate(t0.channelId, t0.userId) THEN Goto(t0, "done")
    ELSE LET t == [t0 EXCEPT !.dispatched = TRUE] IN
         CASE t.cmd = "ping" -> Respond(t, "reply", Pong, "done")
           [] t.cmd = "help" -> Respond(t, "reply", HELP_TEXT("text"), "done")
           [] t.cmd \in {"status", "containers", "uptime"} -> RunCommand(t)
           [] t.cmd = "ip" ->
                RespondOr(t, "reply",
                          [kind |-> "ip", gatewayIp |-> getGatewayIpAddress(routeData)],
                          "done", IpUnavailable)
           [] t.cmd \in {"restart", "stop", "start"} -> RunCommand(t)
           [] OTHER -> Goto(t, "done")

\* An inbound command: `eligible` is interaction.isChatInputCommand() on the
\* structured surface and !message.author.bot on the free-text surface.
Inbound(surface, cmd, target, channelId, userId, eligible, optionPresent) ==
    [IdleTask EXCEPT !.surface = surface, !.cmd = cmd, !.target = target,
                     !.channelId = channelId, !.userId = userId,
                     !.eligible = eligible, !.optionPresent = optionPresent]

InteractionOf(s, commands) ==
    /\ Free(s)
    /\ \E cmd \in commands, target \in Targets, channelId \in Channels,
          userId \in Users, eligible \in BOOLEAN, optionPresent \in BOOLEAN,
          linesArg \in LineRequests :
          /\ cmd \notin TargetCommands => (target = "" /\ optionPresent)
          /\ ~optionPresent => target = ""
          /\ cmd # "logs" => linesArg = NoLines
          /\ task' = [task EXCEPT ![s] = DispatchInteraction(
                        [Inbound("slash", cmd, target, channelId, userId, eligible,
                                 optionPresent) EXCEPT !.linesArg = linesArg])]
    /\ UNCHANGED <<config, file, running>>

MessageOf(s, commands) ==
    /\ Free(s)
    /\ \E cmd \in commands, target \in Targets, channelId \in Channels,
          userId \in Users, eligible \in BOOLEAN :
          /\ cmd \notin TargetCommands => target = ""
          /\ task' = [task EXCEPT ![s] = DispatchMessage(
                        Inbound("text", cmd, target, channelId, userId, eligible, target # ""))]
    /\ UNCHANGED <<config, file, running>>

Interaction(s) == InteractionOf(s, CommandNames)
Message(s) == MessageOf(s, CommandNames)

\* The cron callback of scheduleDailyReport: sendScheduledReport starts.
CronFire(s) ==
    /\ Free(s)
    /\ task' = [task EXCEPT ![s] =
                  Goto([Inbound("cron", "status", "", "", "", TRUE, TRUE)
                          EXCEPT !.dispatched = TRUE], "lookup")]
    /\ UNCHANGED <<config, file, running>>

(***************************************************************************)
(* Delivery path: sendReportMessage and sendExternalIpChangeAlert          *)
(***************************************************************************)
\* The first destination sendReportMessage tries ("" when there is none).
FirstDestination ==
    IF reportChannelId # "" THEN "channel" ELSE IF allowedUserId # "" THEN "dm" ELSE ""

\* sendExternalIpChangeAlert(client, previousIp, currentIp), up to its await.
sendExternalIpChangeAlert(t, previousIp, currentIp) ==
    IF ~isValidExternalIp(previousIp) \/ ~isValidExternalIp(currentIp)
       \/ previousIp = currentIp
    THEN Goto(t, "done")
    ELSE LET alertMessage == AlertMessage(previousIp, currentIp)
             u == [Log(t, [op |-> "sendReportMessage", message |-> alertMessage])
                     EXCEPT !.message = alertMessage, !.next = "done"]
         IN  IF FirstDestination # "" THEN Goto(u, FirstDestination) ELSE Goto(u, "done")

\* A caller that returns without sending the alert.
ResumeWithoutAlert(t) == Goto(t, IF t.next = "alert" THEN "done" ELSE t.next)

\* The caller's code after an awaited reply or delivery: the status command
\* and the scheduled report go on to the alert when the change flag is set.
Resume(t) ==
    IF t.next = "alert"
    THEN sendExternalIpChangeAlert(t, t.statusReport.lastExternalIp, t.statusReport.externalIp)
    ELSE Goto(t, t.next)

\* sendReportMessage(client, message) is called; the caller resumes at `next`.
SendReport(t, message, next) ==
    LET u == [Log(t, [op |-> "sendReportMessage", message |-> message])
                EXCEPT !.message = message, !.next = next]
    IN  IF FirstDestination # "" THEN Goto(u, FirstDestination) ELSE Resume(u)

ChannelOutcomes == {"sent", "fetchFailed", "notTextBased", "sendFailed"}
DmOutcomes == {"sent", "fetchFailed", "sendFailed"}

\* A channel delivery that gives the message up when the channel fails.
ChannelSendWithoutFallback(s) ==
    /\ task[s].pc = "channel"
    /\ \E result \in ChannelOutcomes :
          \E detail \in Details(result \in {"fetchFailed", "sendFailed"}) :
          task' = [task EXCEPT ![s] =
                     Resume(Log(task[s], [op |-> "channelSend", detail |-> detail,
                                 message |-> task[s].message,
                                          result |-> result]))]
    /\ UNCHANGED <<config, file, running>>

\* sendReportMessage, lines 448-459: channels.fetch, isTextBased, channel.send.
ChannelSend(s) ==
    /\ task[s].pc = "channel"
    /\ \E result \in ChannelOutcomes :
          \E detail \in Details(result \in {"fetchFailed", "sendFailed"}) :
          LET u == Log(task[s], [op |-> "channelSend", detail |-> detail,
                                 message |-> task[s].message,
                                 result |-> result])
          IN  task' = [task EXCEPT ![s] =
                         IF result = "sent" THEN Resume(u)
                         ELSE IF allowedUserId # "" THEN Goto(u, "dm")
                         ELSE Resume(u)]
    /\ UNCHANGED <<config, file, running>>

\* sendReportMessage, lines 461-471: users.fetch, user.send.
DmSend(s) ==
    /\ task[s].pc = "dm"
    /\ \E result \in DmOutcomes :
          \E detail \in Details(result # "sent") :
          task' = [task EXCEPT ![s] =
                     Resume(Log(task[s], [op |-> "dmSend", detail |-> detail,
                                          message |-> task[s].message,
                                          result |-> result]))]
    /\ UNCHANGED <<config, file, running>>

(***************************************************************************)
(* Replies                                                                 *)
(***************************************************************************)
\* interaction.deferReply resolves or rejects.
Defer(s) ==
    /\ task[s].pc = "defer"
    /\ \E ok \in BOOLEAN :
          \E detail \in Details(~ok) :
          LET u == Log(task[s], [op |-> "deferReply", detail |-> detail, ok |-> ok])
          IN  task' = [task EXCEPT ![s] = IF ok THEN RunCommand(u) ELSE Goto(u, "failed")]
    /\ UNCHANGED <<config, file, running>>

\* reply / editReply resolves or rejects.
Reply(s) ==
    /\ task[s].pc = "respond"
    /\ \E ok \in BOOLEAN :
          \E detail \in Details(~ok) :
          LET t == task[s]
              u == Log(t, [op |-> t.via, detail |-> detail, message |-> t.message, ok |-> ok])
          IN  task' = [task EXCEPT ![s] =
                         IF ok THEN Resume(u)
                         ELSE IF t.rescue # NoMessage
                              THEN Respond(u, t.via, t.rescue, "done")
                              ELSE Goto(u, "failed")]
    /\ UNCHANGED <<config, file, running>>

(***************************************************************************)
(* Status pipeline: buildStatusReport and its callers                      *)
(***************************************************************************)
\* buildStatusReport: getGatewayIpAddress(), then the fetch of
\* getExternalIpAddress settles.
Lookup(s) ==
    /\ task[s].pc = "lookup"
    /\ \E response \in Responses :
          \E detail \in Details(response.rejected \/ ~response.ok) :
          LET t == task[s]
              externalIp == getExternalIpAddress(response)
          IN  task' = [task EXCEPT ![s] =
                  [Log(t, [op |-> "fetch", detail |-> detail,
                           failed |-> response.rejected \/ ~response.ok,
                           result |-> externalIp])
                     EXCEPT !.pc = "read",
                            !.gatewayIp = getGatewayIpAddress(routeData),
                            !.externalIp = externalIp]]
    /\ UNCHANGED <<config, file, running>>

\* readLastExternalIp settles; lines 180-186 compute the change flag and
\* decide whether to persist.
Read(s) ==
    /\ task[s].pc = "read"
    /\ \E ioError \in BOOLEAN :
          \E detail \in Details(ioError) :
          LET t == task[s]
              lastExternalIp == readLastExternalIp(file, ioError)
          IN  task' = [task EXCEPT ![s] =
                  [Log(t, [op |-> "readFile", detail |-> detail, failed |-> ioError,
                           result |-> lastExternalIp])
                     EXCEPT !.pc = IF ShouldPersist(t.externalIp, lastExternalIp)
                                   THEN "write" ELSE "list",
                            !.lastExternalIp = lastExternalIp,
                            !.externalIpChanged =
                                ExternalIpChanged(t.externalIp, lastExternalIp)]]
    /\ UNCHANGED <<config, file, running>>

\* A write whose failure is raised to buildStatusReport, which then returns
\* null from its catch block.
WriteRaising(s) ==
    /\ task[s].pc = "write"
    /\ \E ioError \in BOOLEAN :
          \E detail \in Details(ioError) :
          LET t == task[s]
              u == Log(t, [op |-> "writeFile", detail |-> detail,
                           data |-> StateFileData(t.externalIp),
                           failed |-> ioError, before |-> file])
          IN  /\ file' = writeLastExternalIp(file, t.externalIp, ioError)
              /\ task' = [task EXCEPT ![s] =
                     IF ioError
                     THEN IF t.surface = "cron" THEN Goto(u, "done")
                          ELSE Respond(u, EditVia(t.surface), StatusUnavailable, "done")
                     ELSE Goto(u, "list")]
    /\ UNCHANGED <<config, running>>

\* writeLastExternalIp settles (`before` records the file it overwrote).
Write(s) ==
    /\ task[s].pc = "write"
    /\ \E ioError \in BOOLEAN :
          \E detail \in Details(ioError) :
          LET t == task[s]
          IN  /\ file' = writeLastExternalIp(file, t.externalIp, ioError)
              /\ task' = [task EXCEPT ![s] =
                     Goto(Log(t, [op |-> "writeFile", detail |-> detail,
                           data |-> StateFileData(t.externalIp),
                                  failed |-> ioError, before |-> file]), "list")]
    /\ UNCHANGED <<config, running>>

\* The `containers` reply of a surface.
ContainersReply(containers) ==
    IF Len(containers) = 0 THEN NoContainers
    ELSE [kind |-> "containers", names |-> containers]

\* The `uptime` reply: the structured handler lists the containers, the
\* free-text handler counts them.
UptimeReply(surface, containers) ==
    IF surface = "slash"
    THEN [kind |-> "uptime",
          lines |-> IF Len(containers) = 0 THEN <<"(no running containers)">>
                    ELSE containers]
    ELSE [kind |-> "uptimeCount", count |-> Len(containers)]

\* A build that reports an empty container section when the listing raised.
BuildResultIgnoringFailure(t, ok, containers) ==
    [report |-> formatStatusReport(t.gatewayIp, t.externalIp, containers),
     externalIp |-> t.externalIp,
     lastExternalIp |-> t.lastExternalIp,
     externalIpChanged |-> t.externalIpChanged]

\* What buildStatusReport returns: the report object, or null when the
\* listing raised (the catch block).
BuildResult(t, ok, containers) ==
    IF ok
    THEN [report |-> formatStatusReport(t.gatewayIp, t.externalIp, containers),
          externalIp |-> t.externalIp,
          lastExternalIp |-> t.lastExternalIp,
          externalIpChanged |-> t.externalIpChanged]
    ELSE NoReport

\* The code after listRunningContainersWithUptime settled: buildStatusReport
\* returns to the status command or to sendScheduledReport, or the
\* containers / uptime command replies.
Listed(t, ok, containers) ==
    CASE t.cmd = "status" ->
            LET statusReport == BuildResult(t, ok, containers)
                u == [t EXCEPT !.statusReport = statusReport]
                next == IF statusReport # NoReport /\ statusReport.externalIpChanged
                        THEN "alert" ELSE "done"
            IN  IF t.surface = "cron"
                THEN IF statusReport = NoReport THEN Goto(u, "done")
                     ELSE SendReport(u, statusReport.report, next)
                ELSE IF statusReport = NoReport
                     THEN Respond(u, EditVia(t.surface), StatusUnavailable, "done")
                     ELSE Respond(u, EditVia(t.surface), statusReport.report, next)
      [] t.cmd = "containers" ->
            IF ok THEN RespondOr(t, EditVia(t.surface), ContainersReply(containers), "done",
                                 ListUnavailable)
            ELSE Respond(t, EditVia(t.surface), ListUnavailable, "done")
      [] t.cmd = "uptime" ->
            IF ok THEN RespondOr(t, "reply", UptimeReply(t.surface, containers), "done",
                                 UptimeUnavailable)
            ELSE Respond(t, "reply", UptimeUnavailable, "done")

\* docker.listContainers settles.
List(s) ==
    /\ task[s].pc = "list"
    /\ \E failed \in BOOLEAN :
          \E detail \in Details(failed) :
          LET t == task[s]
              u == Log(t, [op |-> "listContainers", detail |-> detail, failed |-> failed,
                           result |-> IF failed THEN <<>>
                                      ELSE RunningIn(ContainerNames, running)])
          IN  task' = [task EXCEPT ![s] =
                  IF failed THEN Listed(u, FALSE, <<>>)
                  ELSE [u EXCEPT !.pc = "inspectAll",
                                 !.summaries = RunningIn(ContainerNames, running)]]
    /\ UNCHANGED <<config, file, running>>

\* Promise.all of the per-container inspections settles (it cannot reject
\* when there is nothing to inspect).
InspectAll(s) ==
    /\ task[s].pc = "inspectAll"
    /\ \E failed \in BOOLEAN :
          \E detail \in Details(failed) :
          LET t == task[s]
              u == Log(t, [op |-> "inspectAll", detail |-> detail, failed |-> failed])
          IN  /\ failed => t.summaries # <<>>
              /\ task' = [task EXCEPT ![s] = Listed(u, ~failed, t.summaries)]
    /\ UNCHANGED <<config, file, running>>

(***************************************************************************)
(* Container control: restartContainer, stopContainer, startContainer      *)
(***************************************************************************)
\* A restart whose failure reply quotes the error it caught.
RestartQuotingError(s) ==
    /\ task[s].pc = "restart"
    /\ \E failed \in BOOLEAN :
          \E detail \in Details(failed \/ task[s].target \notin Containers) :
          LET t == task[s]
              ok == ~failed /\ t.target \in Containers
              u == Log(t, [op |-> "restart", detail |-> detail, name |-> t.target, ok |-> ok])
          IN  /\ running' = IF ok THEN [running EXCEPT ![t.target] = TRUE] ELSE running
              /\ task' = [task EXCEPT ![s] =
                     Respond(u, EditVia(t.surface),
                             IF ok THEN Named("restarted", t.target)
                             ELSE [kind |-> "unableToRestart", name |-> t.target,
                                   error |-> detail],
                             "done")]
    /\ UNCHANGED <<config, file>>

\* container.restart settles: it rejects for an unknown container or when
\* the runtime fails.
Restart(s) ==
    /\ task[s].pc = "restart"
    /\ \E failed \in BOOLEAN :
          \E detail \in Details(failed \/ task[s].target \notin Containers) :
          LET t == task[s]
              ok == ~failed /\ t.target \in Containers
              u == Log(t, [op |-> "restart", detail |-> detail, name |-> t.target, ok |-> ok])
          IN  /\ running' = IF ok THEN [running EXCEPT ![t.target] = TRUE] ELSE running
              /\ task' = [task EXCEPT ![s] =
                     Respond(u, EditVia(t.surface),
                             Named(IF ok THEN "restarted" ELSE "unableToRestart", t.target),
                             "done")]
    /\ UNCHANGED <<config, file>>

\* An inspection after which stop / start is issued whatever the state.
InspectIgnoringState(s) ==
    /\ task[s].pc = "inspect"
    /\ \E failed \in BOOLEAN :
          \E detail \in Details(failed \/ task[s].target \notin Containers) :
          LET t == task[s]
              ok == ~failed /\ t.target \in Containers
              u == Log(t, [op |-> "inspect", detail |-> detail, name |-> t.target, ok |-> ok,
                           isRunning |-> ok /\ running[t.target]])
          IN  task' = [task EXCEPT ![s] =
                  IF ~ok
                  THEN Respond(u, EditVia(t.surface),
                               Named(IF t.cmd = "stop" THEN "unableToStop" ELSE "unableToStart",
                                     t.target), "done")
                  ELSE Goto(u, t.cmd)]
    /\ UNCHANGED <<config, file, running>>

\* container.inspect settles in stopContainer / startContainer, and the
\* check of State.Running follows.
Inspect(s) ==
    /\ task[s].pc = "inspect"
    /\ \E failed \in BOOLEAN :
          \E detail \in Details(failed \/ task[s].target \notin Containers) :
          LET t == task[s]
              ok == ~failed /\ t.target \in Containers
              isRunning == ok /\ running[t.target]
              u == Log(t, [op |-> "inspect", detail |-> detail, name |-> t.target, ok |-> ok,
                           isRunning |-> isRunning])
          IN  task' = [task EXCEPT ![s] =
                  IF ~ok
                  THEN Respond(u, EditVia(t.surface),
                               Named(IF t.cmd = "stop" THEN "unableToStop" ELSE "unableToStart",
                                     t.target), "done")
                  ELSE IF t.cmd = "stop"
                  THEN IF ~isRunning
                       THEN Respond(u, EditVia(t.surface), Named("alreadyStopped", t.target),
                                    "done")
                       ELSE Goto(u, "stop")
                  ELSE IF isRunning
                       THEN Respond(u, EditVia(t.surface), Named("alreadyRunning", t.target),
                                    "done")
                       ELSE Goto(u, "start")]
    /\ UNCHANGED <<config, file, running>>

\* container.stop settles: the runtime rejects a stop of a container that
\* is not running.
Stop(s) ==
    /\ task[s].pc = "stop"
    /\ \E failed \in BOOLEAN :
          \E detail \in Details(failed \/ ~running[task[s].target]) :
          LET t == task[s]
              ok == ~failed /\ running[t.target]
              u == Log(t, [op |-> "stop", detail |-> detail, name |-> t.target, ok |-> ok,
                           wasRunning |-> running[t.target]])
          IN  /\ running' = IF ok THEN [running EXCEPT ![t.target] = FALSE] ELSE running
              /\ task' = [task EXCEPT ![s] =
                     Respond(u, EditVia(t.surface),
                             Named(IF ok THEN "stopped" ELSE "unableToStop", t.target),
                             "done")]
    /\ UNCHANGED <<config, file>>

\* container.start settles: the runtime rejects a start of a running container.
Start(s) ==
    /\ task[s].pc = "start"
    /\ \E failed \in BOOLEAN :
          \E detail \in Details(failed \/ running[task[s].target]) :
          LET t == task[s]
              ok == ~failed /\ ~running[t.target]
              u == Log(t, [op |-> "start", detail |-> detail, name |-> t.target, ok |-> ok,
                           wasRunning |-> running[t.target]])
          IN  /\ running' = IF ok THEN [running EXCEPT ![t.target] = TRUE] ELSE running
              /\ task' = [task EXCEPT ![s] =
                     Respond(u, EditVia(t.surface),
                             Named(IF ok THEN "started" ELSE "unableToStart", t.target),
                             "done")]
    /\ UNCHANGED <<config, file>>

(***************************************************************************)
(* getContainerLogs                                                        *)
(***************************************************************************)
\* An inspection in getContainerLogs that does not look at the status code.
LogsInspectWithoutStatus(s) ==
    /\ task[s].pc = "logsInspect"
    /\ \E failed \in BOOLEAN :
          \E detail \in Details(failed \/ task[s].target \notin Containers) :
          LET t == task[s]
              result == IF failed THEN "error"
                        ELSE IF t.target \in Containers THEN "ok" ELSE "notFound"
              u == Log(t, [op |-> "inspect", detail |-> detail, name |-> t.target,
                           ok |-> result = "ok",
                           statusCode |-> IF result = "notFound" THEN 404 ELSE 0,
                           isRunning |-> result = "ok" /\ running[t.target]])
          IN  task' = [task EXCEPT ![s] =
                  IF result = "ok" THEN Goto(u, "logsFetch")
                  ELSE Respond(u, "editReply", Named("logsUnavailable", t.target), "done")]
    /\ UNCHANGED <<config, file, running>>

\* container.inspect settles in getContainerLogs: 404 for an unknown
\* container, another error when the runtime fails.
LogsInspect(s) ==
    /\ task[s].pc = "logsInspect"
    /\ \E failed \in BOOLEAN :
          \E detail \in Details(failed \/ task[s].target \notin Containers) :
          LET t == task[s]
              result == IF failed THEN "error"
                        ELSE IF t.target \in Containers THEN "ok" ELSE "notFound"
              u == Log(t, [op |-> "inspect", detail |-> detail, name |-> t.target,
                           ok |-> result = "ok",
                           statusCode |-> IF result = "notFound" THEN 404 ELSE 0,
                           isRunning |-> result = "ok" /\ running[t.target]])
          IN  task' = [task EXCEPT ![s] =
                  CASE result = "notFound" ->
                          Respond(u, "editReply", Named("logsNotFound", t.target), "done")
                    [] result = "error" ->
                          Respond(u, "editReply", Named("logsUnavailable", t.target), "done")
                    [] result = "ok" -> Goto(u, "logsFetch")]
    /\ UNCHANGED <<config, file, running>>

\* Log outputs of the runtime: none, blank, short, and long ones around the
\* budget of a reply.
LogTexts ==
    {<<>>,
     <<Run(" ", 1), Run("\n", 1)>>,
     <<Run("x", 1), Run("\n", 1)>>,
     <<Run("a", 1836)>>,
     <<Run("a", 1837), Run("\n", 3)>>,
     <<Run("a", 1892), Run(" ", 1)>>,
     <<Run("a", 1), Run("b", 1892)>>,
     <<Run(" ", 2), Run("a", 100), Run("\n", 1), Run("b", 1900), Run("c", 5), Run("\n", 1)>>}

\* container.logs settles; empty or blank output gives the 'no logs' reply.
LogsFetch(s) ==
    /\ task[s].pc = "logsFetch"
    /\ \E failed \in BOOLEAN, logText \in LogTexts :
          \E detail \in Details(failed) :
          LET t == task[s]
              u == Log(t, [op |-> "logs", detail |-> detail, name |-> t.target,
                           tail |-> t.lines, ok |-> ~failed, result |-> logText])
          IN  /\ failed => logText = <<>>
              /\ task' = [task EXCEPT ![s] =
                     IF failed
                     THEN Respond(u, "editReply", Named("logsUnavailable", t.target), "done")
                     ELSE IF logText = <<>> \/ TrimRuns(logText) = <<>>
                     THEN Respond(u, "editReply", Named("noLogs", t.target), "done")
                     ELSE Respond(u, "editReply", LogsReply(logText, t.maxEnforced), "done")]
    /\ UNCHANGED <<config, file, running>>

(***************************************************************************)
(* Specifications                                                          *)
(***************************************************************************)
\* After construction: the configuration is fixed, no handler runs, and the
\* state file is absent or holds what an earlier run persisted.
NoProbe == [stage |-> "none"]
NoClock == [stage |-> "none"]

InitWith(texts) ==
    /\ errorTexts = texts
    /\ probe = NoProbe
    /\ clock = NoClock
    /\ allowedChannelId \in {"", "c1"}
    /\ allowedUserId \in {"", "u1"}
    /\ reportChannelId \in {"", "r1"}
    /\ routeData \in RouteTables
    /\ file \in {[exists |-> FALSE, data |-> <<>>],
                 [exists |-> TRUE, data |-> StateFileData(Ip1)]}
    /\ running \in [Containers -> BOOLEAN]
    /\ task = [s \in Slots |-> IdleTask]

Init == InitWith({"e1"})

\* The handler's promise has settled (it returned or rejected): the invocation
\* is over and its slot is free again.
Settle(s) ==
    /\ task[s].pc \in {"done", "failed"}
    /\ task' = [task EXCEPT ![s] = IdleTask]
    /\ UNCHANGED <<config, file, running>>

\* A handler's step at an await.
Await(s) ==
    \/ Defer(s)
    \/ Reply(s)
    \/ Lookup(s)
    \/ Read(s)
    \/ Write(s)
    \/ List(s)
    \/ InspectAll(s)
    \/ ChannelSend(s)
    \/ DmSend(s)
    \/ Restart(s)
    \/ Inspect(s)
    \/ Stop(s)
    \/ Start(s)
    \/ LogsInspect(s)
    \/ LogsFetch(s)

Step(s) == Await(s) \/ Settle(s)

\* Handlers run one at a time, each to completion.
Next ==
    \/ Interaction(1)
    \/ Message(1)
    \/ CronFire(1)
    \/ Step(1)

Spec == Init /\ [][Next]_vars

\* Overlapping report cycles: the daily fire (slot 1) and a status command on
\* either surface (slot 2) arrive while the other handler is suspended at an
\* await, in any order and any number of times.
CycleStep(s) ==
    \/ Defer(s)
    \/ Reply(s)
    \/ Lookup(s)
    \/ Read(s)
    \/ Write(s)
    \/ List(s)
    \/ InspectAll(s)
    \/ DmSend(s)
    \/ Settle(s)

NextRace ==
    \/ CronFire(1)
    \/ InteractionOf(2, {"status"})
    \/ MessageOf(2, {"status"})
    \/ \E s \in Slots : CycleStep(s)

InitRace ==
    /\ Init
    /\ allowedChannelId = "c1"
    /\ allowedUserId = "u1"
    /\ reportChannelId = ""
    /\ routeData.readable
    /\ ~file.exists
    /\ \A c \in Containers : running[c]

SpecRace == InitRace /\ [][NextRace]_vars

\* The same command on both surfaces: a structured invocation (slot 1) runs
\* to its end, then the free-text message with the same command, argument,
\* channel and author (slot 2) runs, and both records are kept.
MessageAfter(s, r) ==
    /\ Free(s)
    /\ task[r].pc \in {"done", "failed"}
    /\ \E eligible \in BOOLEAN :
          task' = [task EXCEPT ![s] = DispatchMessage(
                     Inbound("text", task[r].cmd, task[r].target, task[r].channelId,
                             task[r].userId, eligible, task[r].target # ""))]
    /\ UNCHANGED <<config, file, running>>

NextPair ==
    \/ InteractionOf(1, CommandSet)
    \/ MessageAfter(2, 1)
    \/ \E s \in Slots : Await(s)

InitPair ==
    /\ Init
    /\ allowedChannelId = "c1"
    /\ allowedUserId = "u1"
    /\ reportChannelId = "r1"
    /\ routeData.readable
    /\ file.exists

SpecPair == InitPair /\ [][NextPair]_vars

\* Overlapping container commands: restart, stop and start commands of either
\* surface arrive in both slots while the other handler is suspended at an
\* await, in any order and any number of times.
ControlCommands == {"restart", "stop", "start"}
ControlStep(s) ==
    \/ Defer(s)
    \/ Reply(s)
    \/ Restart(s)
    \/ Inspect(s)
    \/ Stop(s)
    \/ Start(s)
    \/ Settle(s)

NextControl ==
    \E s \in Slots :
        \/ InteractionOf(s, ControlCommands)
        \/ MessageOf(s, ControlCommands)
        \/ ControlStep(s)

InitControl ==
    /\ Init
    /\ allowedChannelId = "c1"
    /\ allowedUserId = "u1"
    /\ reportChannelId = ""
    /\ routeData.readable
    /\ ~file.exists

SpecControl == InitControl /\ [][NextControl]_vars

\* Report cycles one after the other: a cycle of any origin (slot 1) runs to
\* its end, then a second one (slot 2) runs; the record of the first is kept.
CycleAwait(s) ==
    \/ Defer(s)
    \/ Reply(s)
    \/ Lookup(s)
    \/ Read(s)
    \/ Write(s)
    \/ List(s)
    \/ InspectAll(s)
    \/ DmSend(s)

CycleAfter(s, r) ==
    /\ task[r].pc \in {"done", "failed"}
    /\ \/ CronFire(s)
       \/ InteractionOf(s, {"status"})
       \/ MessageOf(s, {"status"})

NextSeq ==
    \/ CronFire(1)
    \/ InteractionOf(1, {"status"})
    \/ MessageOf(1, {"status"})
    \/ CycleAfter(2, 1)
    \/ \E s \in Slots : CycleAwait(s)

InitSeq ==
    /\ Init
    /\ allowedChannelId = "c1"
    /\ allowedUserId = "u1"
    /\ reportChannelId = ""
    /\ routeData.readable
    /\ \A c \in Containers : running[c]

SpecSeq == InitSeq /\ [][NextSeq]_vars

\* The same command twice: an invocation on either surface (slot 1) runs to
\* its end, then the same command with the same argument from the same origin
\* on the same surface (slot 2) runs, while the collaborators raise errors
\* with either of two texts.
Again(s, r) ==
    /\ Free(s)
    /\ task[r].pc \in {"done", "failed"}
    /\ LET t == task[r]
           inbound == [Inbound(t.surface, t.cmd, t.target, t.channelId, t.userId,
                               t.eligible, t.optionPresent) EXCEPT !.linesArg = t.linesArg]
       IN  task' = [task EXCEPT ![s] =
                      IF t.surface = "slash" THEN DispatchInteraction(inbound)
                      ELSE DispatchMessage(inbound)]
    /\ UNCHANGED <<config, file, running>>

NextTwin ==
    \/ InteractionOf(1, CommandSet)
    \/ MessageOf(1, CommandSet)
    \/ Again(2, 1)
    \/ \E s \in Slots : Await(s)

InitTwin ==
    /\ InitWith({"e1", "e2"})
    /\ allowedChannelId = "c1"
    /\ allowedUserId = "u1"
    /\ reportChannelId = "r1"
    /\ routeData.readable
    /\ file.exists

SpecTwin == InitTwin /\ [][NextTwin]_vars

\* formatStatusReport on its own: any addresses and container lines, short
\* and long, are formatted.
MaxReportLines == 4
AddressLengths == {7, 15, 1700, 1765, 2000}
LineLengths == {20, 600, 900, 1750}
RECURSIVE SeqsUpTo(_, _)
SeqsUpTo(S, n) ==
    IF n = 0 THEN {<<>>}
    ELSE LET shorter == SeqsUpTo(S, n - 1)
         IN  shorter \cup {Append(q, x) : q \in {r \in shorter : Len(r) = n - 1}, x \in S}

Format ==
    /\ probe.stage = "input"
    /\ probe' = [stage |-> "output", gatewayLength |-> probe.gatewayLength,
                 externalLength |-> probe.externalLength,
                 containerLines |-> probe.containerLines,
                 layout |-> ReportLayout(probe.gatewayLength, probe.externalLength,
                                         probe.containerLines)]
    /\ UNCHANGED <<allowedChannelId, allowedUserId, reportChannelId, routeData, errorTexts,
                   file, running, task, clock>>

InitReport ==
    /\ errorTexts = {"e1"}
    /\ clock = NoClock
    /\ allowedChannelId = "c1"
    /\ allowedUserId = "u1"
    /\ reportChannelId = "r1"
    /\ routeData \in RouteTables /\ routeData.readable
    /\ file = [exists |-> FALSE, data |-> <<>>]
    /\ running = [c \in Containers |-> TRUE]
    /\ task = [s \in Slots |-> IdleTask]
    /\ \E gatewayLength \in {7, 15}, externalLength \in AddressLengths,
          containerLines \in SeqsUpTo(LineLengths, MaxReportLines) :
          probe = [stage |-> "input", gatewayLength |-> gatewayLength,
                   externalLength |-> externalLength, containerLines |-> containerLines]

SpecReport == InitReport /\ [][Format]_vars

\* getGatewayIpAddress on its own: the file is unreadable, or holds the header
\* line and up to MaxRouteLines routes as the kernel prints them (eight
\* upper-case hex digits per address): subnet routes, default routes through
\* two gateways, a default route without a gateway (0.0.0.0).
MaxRouteLines == 3
OtherDefaultLine ==
    <<<<"e", "1">>, DefaultDestination, <<"F", "E", "0", "1", "A", "8", "C", "0">>>>
OnLinkDefaultLine == <<<<"p", "0">>, DefaultDestination, DefaultDestination>>
RouteLines == {SubnetLine, DefaultLine, OtherDefaultLine, OnLinkDefaultLine}

ReadGateway ==
    /\ probe.stage = "route"
    /\ probe' = [stage |-> "gateway", route |-> probe.route,
                 result |-> getGatewayIpAddress(probe.route)]
    /\ UNCHANGED <<allowedChannelId, allowedUserId, reportChannelId, routeData, errorTexts,
                   file, running, task, clock>>

InitGateway ==
    /\ errorTexts = {"e1"}
    /\ clock = NoClock
    /\ allowedChannelId = "c1"
    /\ allowedUserId = "u1"
    /\ reportChannelId = "r1"
    /\ routeData \in RouteTables /\ routeData.readable
    /\ file = [exists |-> FALSE, data |-> <<>>]
    /\ running = [c \in Containers |-> TRUE]
    /\ task = [s \in Slots |-> IdleTask]
    /\ \E readable \in BOOLEAN, routes \in SeqsUpTo(RouteLines, MaxRouteLines) :
          probe = [stage |-> "route",
                   route |-> [readable |-> readable, lines |-> <<HeaderLine>> \o routes]]

SpecGateway == InitGateway /\ [][ReadGateway]_vars

\* formatDuration on its own: durations of whole and broken seconds with
\* every combination of zero and nonzero days, hours, minutes and seconds,
\* and a negative one (a start time ahead of the clock).
MaxDurationDays == 2
DurationInputs ==
    {[days |-> d, hours |-> h, minutes |-> m, seconds |-> sec, rest |-> ms] :
        d \in 0..MaxDurationDays, h \in {0, 1, 23}, m \in {0, 1, 30, 59},
        sec \in {0, 1, 30, 59}, ms \in {0, 999}}
Milliseconds(in) ==
    1000 * (86400 * in.days + 3600 * in.hours + 60 * in.minutes + in.seconds) + in.rest

Measure ==
    /\ probe.stage = "elapsed"
    /\ probe' = [stage |-> "duration", in |-> probe.in, milliseconds |-> probe.milliseconds,
                 result |-> formatDuration(probe.milliseconds)]
    /\ UNCHANGED <<allowedChannelId, allowedUserId, reportChannelId, routeData, errorTexts,
                   file, running, task, clock>>

InitDuration ==
    /\ errorTexts = {"e1"}
    /\ clock = NoClock
    /\ allowedChannelId = "c1"
    /\ allowedUserId = "u1"
    /\ reportChannelId = "r1"
    /\ routeData \in RouteTables /\ routeData.readable
    /\ file = [exists |-> FALSE, data |-> <<>>]
    /\ running = [c \in Containers |-> TRUE]
    /\ task = [s \in Slots |-> IdleTask]
    /\ \/ \E in \in DurationInputs :
             probe = [stage |-> "elapsed", in |-> in, milliseconds |-> Milliseconds(in)]
       \/ \E behind \in {1, 1500} :
             probe = [stage |-> "elapsed",
                      in |-> [days |-> 0, hours |-> 0, minutes |-> 0, seconds |-> 0,
                              rest |-> 0],
                      milliseconds |-> 0 - behind]

SpecDuration == InitDuration /\ [][Measure]_vars

(***************************************************************************)
(* The daily schedule: the ClientReady listener and scheduleDailyReport    *)
(***************************************************************************)
\* The process starts and stops while the wall clock of America/New_York
\* goes on, hour by hour and day by day. `listening`: the ClientReady
\* listener is registered; `schedules`: the cron tasks the process holds, in
\* memory only; `fires[d]`: how often the cron callback ran on day d.
MaxDays == 3
MaxReadyEvents == 2
FireHour == 8                 \* '0 8 * * *'
LastHour == 23

\* The process starts (index.js 42-68): the listener is registered with
\* client.once and nothing is scheduled yet.
Boot ==
    /\ ~clock.up
    /\ clock' = [clock EXCEPT !.up = TRUE, !.listening = TRUE, !.schedules = 0,
                              !.readyEvents = 0]
    /\ UNCHANGED <<allowedChannelId, allowedUserId, reportChannelId, routeData, errorTexts,
                   file, running, task, probe>>

\* A listener registered with client.on: it stays registered.
ClientReadyEveryTime ==
    /\ clock.up
    /\ clock.readyEvents < MaxReadyEvents
    /\ clock' = [clock EXCEPT !.readyEvents = @ + 1,
                              !.schedules = IF clock.listening THEN @ + 1 ELSE @]
    /\ UNCHANGED <<allowedChannelId, allowedUserId, reportChannelId, routeData, errorTexts,
                   file, running, task, probe>>

\* The client emits ClientReady: a listener registered with client.once runs
\* on the first event only; it calls scheduleDailyReport, which registers one
\* cron task.
ClientReady ==
    /\ clock.up
    /\ clock.readyEvents < MaxReadyEvents
    /\ clock' = [clock EXCEPT !.readyEvents = @ + 1,
                              !.listening = FALSE,
                              !.schedules = IF clock.listening THEN @ + 1 ELSE @]
    /\ UNCHANGED <<allowedChannelId, allowedUserId, reportChannelId, routeData, errorTexts,
                   file, running, task, probe>>

\* The process ends: its cron tasks end with it, and nothing about the
\* schedule is kept on disk.
Exit ==
    /\ clock.up
    /\ clock' = [clock EXCEPT !.up = FALSE, !.listening = FALSE, !.schedules = 0,
                              !.readyEvents = 0]
    /\ UNCHANGED <<allowedChannelId, allowedUserId, reportChannelId, routeData, errorTexts,
                   file, running, task, probe>>

\* The wall clock reaches the next hour; every cron task of a running
\* process runs its callback when that hour is 08:00 ('0 8 * * *' in the
\* timezone America/New_York).
Tick ==
    /\ clock.hour < LastHour \/ clock.day < MaxDays
    /\ LET hour == IF clock.hour = LastHour THEN 0 ELSE clock.hour + 1
           day == IF clock.hour = LastHour THEN clock.day + 1 ELSE clock.day
           callbacks == IF hour = FireHour /\ clock.up THEN clock.schedules ELSE 0
       IN  clock' = [clock EXCEPT !.hour = hour, !.day = day,
                                  !.fires[day] = @ + callbacks]
    /\ UNCHANGED <<allowedChannelId, allowedUserId, reportChannelId, routeData, errorTexts,
                   file, running, task, probe>>

NextClock ==
    \/ Boot
    \/ ClientReady
    \/ Exit
    \/ Tick

InitClock ==
    /\ errorTexts = {"e1"}
    /\ probe = NoProbe
    /\ allowedChannelId = "c1"
    /\ allowedUserId = "u1"
    /\ reportChannelId = "r1"
    /\ routeData \in RouteTables /\ routeData.readable
    /\ file = [exists |-> FALSE, data |-> <<>>]
    /\ running = [c \in Containers |-> TRUE]
    /\ task = [s \in Slots |-> IdleTask]
    /\ \E hour \in {0, 7, 8, 9} :
          clock = [stage |-> "run", day |-> 1, hour |-> hour, up |-> FALSE, listening |-> FALSE,
                   schedules |-> 0, readyEvents |-> 0, fires |-> [d \in 1..MaxDays |-> 0]]

SpecClock == InitClock /\ [][NextClock]_vars

(***************************************************************************)
(* Properties                                                              *)
(***************************************************************************)
\* The positions of the calls `op` in an invocation's record.
EventsOf(t, op) == {i \in DOMAIN t.obs : t.obs[i].op = op}
\* A report cycle: an invocation that runs buildStatusReport.
Cycle(t) == t.cmd = "status" /\ t.dispatched
\* The cycle has read the persisted address.
HasRead(t) == EventsOf(t, "readFile") # {}
\* An address is valid: present, non-empty and not the 'unknown' sentinel.
Known(address) == address \notin {Null, <<>>, Unknown}
Ended(t) == t.pc \in {"done", "failed"}
LastEvent(t) == t.obs[Len(t.obs)]

\* C1: in every report cycle the change flag is true exactly when the current
\* external address is valid, the persisted address read in that cycle is
\* valid, and the two differ; so an equal previous address, an absent one, or
\* an 'unknown' current address all give false.
C1_ChangeFlag ==
    \A s \in Slots :
        LET t == task[s] IN
        (Cycle(t) /\ HasRead(t)) =>
            LET previous == t.obs[CHOOSE i \in EventsOf(t, "readFile") : TRUE].result
                current == t.externalIp
                expected == Known(current) /\ Known(previous) /\ current # previous
            IN  /\ t.externalIpChanged = expected
                /\ t.statusReport # NoReport => t.statusReport.externalIpChanged = expected
                /\ previous = current => ~t.externalIpChanged
                /\ previous = Null => ~t.externalIpChanged
                /\ current = Unknown => ~t.externalIpChanged

\* A cycle read a valid address, observed another valid one, flagged the
\* change and returned its report.
C1_Witness ==
    \E s \in Slots :
        /\ Cycle(task[s]) /\ HasRead(task[s])
        /\ task[s].statusReport # NoReport
        /\ task[s].statusReport.externalIpChanged
        /\ task[s].lastExternalIp = Ip1 /\ task[s].externalIp = Ip2

\* A write of the persisted address was issued by the cycle.
WriteIssued(t) == t.pc = "write" \/ EventsOf(t, "writeFile") # {}

\* C2: a report cycle issues a write of the persisted address exactly when the
\* current address is valid and (the change flag is set or the previous value
\* read is not valid); it writes at most once and writes the current address.
C2_PersistDecision ==
    \A s \in Slots :
        LET t == task[s] IN
        (Cycle(t) /\ HasRead(t)) =>
            /\ WriteIssued(t) <=>
                  (Known(t.externalIp)
                   /\ (t.externalIpChanged \/ ~Known(t.lastExternalIp)))
            /\ Cardinality(EventsOf(t, "writeFile")) <= 1
            /\ \A i \in EventsOf(t, "writeFile") :
                  /\ t.obs[i].data = t.externalIp \o <<"\n">>
                  /\ Trim(t.obs[i].data) = t.externalIp
            /\ (t.pc = "list" /\ LastEvent(t).op = "writeFile" /\ ~LastEvent(t).failed) =>
                  (file.exists /\ Trim(file.data) = t.externalIp)
            /\ t.lastExternalIp = t.externalIp => ~WriteIssued(t)
            /\ (t.lastExternalIp = Null /\ Known(t.externalIp)) => WriteIssued(t)
            /\ t.externalIp = Unknown => ~WriteIssued(t)

\* First observation: nothing was persisted, a valid address was looked up,
\* and the write went through.
C2_Witness ==
    \E s \in Slots :
        /\ Cycle(task[s])
        /\ task[s].lastExternalIp = Null /\ task[s].externalIp = Ip2
        /\ \E i \in EventsOf(task[s], "writeFile") :
              ~task[s].obs[i].failed /\ ~task[s].obs[i].before.exists

\* The persisted value is absent or a valid address.
PersistedValid == file.exists => Known(Trim(file.data))

\* C3: under any interleaving of report cycles, with any lookup result and
\* any read, write or listing failure, the persisted value is absent or a
\* valid address (never 'unknown', never empty), and once a value is stored
\* the persisted value never becomes absent again.
C3_PersistedValue ==
    /\ []PersistedValid
    /\ [][file.exists => (file'.exists /\ Known(Trim(file'.data)))]_vars

\* Two overlapping cycles: the daily fire stored its address while the status
\* command, which had read no previous value, is about to overwrite it with a
\* different one.
C3_Witness ==
    /\ file.exists
    /\ \E i \in EventsOf(task[1], "writeFile") : ~task[1].obs[i].failed
    /\ task[2].pc = "write"
    /\ task[2].lastExternalIp = Null
    /\ Trim(file.data) # task[2].externalIp

\* The cycle's write replaced a valid persisted address by a different one.
Replacing(t, i) ==
    /\ ~t.obs[i].failed
    /\ t.obs[i].before.exists
    /\ Known(Trim(t.obs[i].before.data))
    /\ Trim(t.obs[i].before.data) # Trim(t.obs[i].data)

\* The messages given to sendReportMessage, by position.
Handed(t) == EventsOf(t, "sendReportMessage")
Alerts(t) == {i \in Handed(t) : t.obs[i].message.kind = "alert"}

\* C4: a report cycle (status command on either surface, scheduled fire) that
\* replaces a valid persisted address by a different valid address hands an
\* alert naming the previous and the current address to the delivery path
\* before it ends.
C4_AlertWhenReplaced ==
    \A s \in Slots :
        LET t == task[s] IN
        (Cycle(t) /\ Ended(t)) =>
            \A i \in EventsOf(t, "writeFile") :
                Replacing(t, i) =>
                    \E j \in Alerts(t) :
                        /\ t.obs[j].message.previousIp = Trim(t.obs[i].before.data)
                        /\ t.obs[j].message.currentIp = Trim(t.obs[i].data)

\* The calls made between positions i and j of a record.
Between(t, i, j) == {k \in DOMAIN t.obs : i < k /\ k < j}

\* The delivery attempt of the message handed at position i was made and has
\* completed before position j: every call in between is a delivery of that
\* message, the configured destinations were tried in order, and the last
\* call settled the attempt.
DeliveredBefore(t, i, j) ==
    LET calls == Between(t, i, j) IN
    /\ \A k \in calls : /\ t.obs[k].op \in {"channelSend", "dmSend"}
                        /\ t.obs[k].message = t.obs[i].message
    /\ reportChannelId # "" =>
          /\ calls # {}
          /\ t.obs[i + 1].op = "channelSend"
          /\ \/ t.obs[j - 1].op = "dmSend"
             \/ t.obs[j - 1].result = "sent"
             \/ allowedUserId = ""
    /\ (reportChannelId = "" /\ allowedUserId # "") =>
          (calls = {i + 1} /\ t.obs[i + 1].op = "dmSend")
    /\ (reportChannelId = "" /\ allowedUserId = "") => calls = {}

\* C5: on a scheduled fire whose cycle succeeds the status message is handed
\* to delivery first; an alert is sent exactly when the change flag is set, as
\* a second, separate message through the same delivery path, and only after
\* the delivery attempt of the status message has completed.
C5_ScheduledOrder ==
    \A s \in Slots :
        LET t == task[s] IN
        t.surface = "cron" =>
            /\ t.statusReport = NoReport => Handed(t) = {}
            /\ t.statusReport # NoReport =>
                  \E i \in Handed(t) :
                      /\ t.obs[i].message = t.statusReport.report
                      /\ \A j \in Handed(t) : i <= j
            /\ Cardinality(Alerts(t)) <= 1
            /\ Cardinality(Handed(t)) <= 2
            /\ \A j \in Alerts(t) :
                  /\ t.statusReport # NoReport
                  /\ t.statusReport.externalIpChanged
                  /\ t.obs[j].message # t.statusReport.report
                  /\ \E i \in Handed(t) :
                        /\ i < j
                        /\ t.obs[i].message = t.statusReport.report
                        /\ DeliveredBefore(t, i, j)
                  /\ \A k \in DOMAIN t.obs :
                        k > j => (/\ t.obs[k].op \in {"channelSend", "dmSend"}
                                  /\ t.obs[k].message = t.obs[j].message)
            /\ (t.pc = "done" /\ t.statusReport # NoReport) =>
                  (t.statusReport.externalIpChanged <=> Alerts(t) # {})

\* A scheduled fire delivered its status message, then handed the alert and
\* delivered it too.
C5_Witness ==
    \E s \in Slots :
        LET t == task[s] IN
        /\ t.surface = "cron" /\ t.pc = "done"
        /\ t.statusReport # NoReport
        /\ Alerts(t) # {}
        /\ LastEvent(t).op \in {"channelSend", "dmSend"}
        /\ LastEvent(t).result = "sent"
        /\ LastEvent(t).message.kind = "alert"

\* The delivery calls made for the message handed at position i: those up to
\* the next message handed.
DeliveryOf(t, i) ==
    {k \in DOMAIN t.obs :
        /\ k > i
        /\ t.obs[k].op \in {"channelSend", "dmSend"}
        /\ \A j \in Handed(t) : j > i => k < j}
\* sendReportMessage has returned for the message handed at position i.
Returned(t, i) == (\E j \in Handed(t) : j > i) \/ t.pc \notin {"channel", "dm"}

\* C6: for every message given to sendReportMessage: with a report channel
\* configured and working the message goes to the channel only; when the
\* channel fails (fetch, send, or not text-based) and an allowed user is
\* configured it goes to that user by direct message; without a channel it
\* goes to the allowed user; it never reaches both destinations, and when
\* every path fails it is dropped without an error.
C6_Delivery ==
    \A s \in Slots :
        LET t == task[s] IN
        \A i \in Handed(t) :
            LET calls == DeliveryOf(t, i)
                channel == {k \in calls : t.obs[k].op = "channelSend"}
                dm == {k \in calls : t.obs[k].op = "dmSend"}
            IN  /\ \A k \in calls : t.obs[k].message = t.obs[i].message
                /\ Cardinality(channel) <= 1 /\ Cardinality(dm) <= 1
                /\ \A c \in channel, d \in dm : c < d
                /\ reportChannelId = "" => channel = {}
                /\ allowedUserId = "" => dm = {}
                /\ (reportChannelId # "" /\ Returned(t, i)) => channel # {}
                /\ \A c \in channel :
                      /\ t.obs[c].result = "sent" => dm = {}
                      /\ (t.obs[c].result # "sent" /\ allowedUserId # "" /\ Returned(t, i))
                            => dm # {}
                /\ (reportChannelId = "" /\ allowedUserId # "" /\ Returned(t, i)) => dm # {}
                /\ ~(\E c \in channel, d \in dm :
                        t.obs[c].result = "sent" /\ t.obs[d].result = "sent")
                /\ (Returned(t, i) /\ Len(t.obs) \in calls \cup {i}) => t.pc = "done"

\* The channel failed and the message went to the allowed user instead.
C6_Witness ==
    \E s \in Slots :
        LET t == task[s] IN
        \E i \in Handed(t) :
            /\ Returned(t, i)
            /\ \E c, d \in DeliveryOf(t, i) :
                  /\ t.obs[c].op = "channelSend" /\ t.obs[c].result = "sendFailed"
                  /\ t.obs[d].op = "dmSend" /\ t.obs[d].result = "sent"

\* The listing of the running containers raised: the list call or one of
\* the per-container inspections.
ListingFailed(t) ==
    \E i \in DOMAIN t.obs : t.obs[i].op \in {"listContainers", "inspectAll"} /\ t.obs[i].failed
\* The replies attempted on the command's surface, by position.
Replies(t) == {i \in DOMAIN t.obs : t.obs[i].op \in {"reply", "editReply"}}
Deliveries(t) == {i \in DOMAIN t.obs : t.obs[i].op \in {"channelSend", "dmSend"}}

\* C7: when the listing of running containers fails during a report cycle
\* the cycle yields no report: the status command answers with the single
\* fixed 'status unavailable' message, shows no report and sends no alert, and
\* a scheduled fire sends no message at all.
C7_ListingFailure ==
    \A s \in Slots :
        LET t == task[s] IN
        (Cycle(t) /\ ListingFailed(t)) =>
            /\ t.statusReport = NoReport
            /\ Handed(t) = {} /\ Deliveries(t) = {}
            /\ Cardinality(Replies(t)) <= 1
            /\ \A i \in Replies(t) : t.obs[i].message = StatusUnavailable
            /\ t.surface = "cron" => (t.pc = "done" /\ Replies(t) = {})
            /\ t.surface # "cron" =>
                  \/ t.pc = "respond" /\ t.message = StatusUnavailable /\ Replies(t) = {}
                  \/ Ended(t) /\ Cardinality(Replies(t)) = 1
                              /\ (t.pc = "done" <=> LastEvent(t).ok)

\* One per-container inspection failed and the status command answered with
\* the fixed message.
C7_Witness ==
    \E s \in Slots :
        LET t == task[s] IN
        /\ Cycle(t) /\ t.surface = "slash" /\ t.pc = "done"
        /\ \E i \in EventsOf(t, "inspectAll") : t.obs[i].failed
        /\ LastEvent(t).op = "editReply" /\ LastEvent(t).ok
        /\ LastEvent(t).message = StatusUnavailable

\* The listing of the running containers succeeded.
ListingSucceeded(t) == \E i \in EventsOf(t, "inspectAll") : ~t.obs[i].failed
\* The cycle goes on after the call at position i: the next call, or the
\* await it is suspended at, is one of `ops`.
GoesOn(t, i, ops) == IF i = Len(t.obs) THEN t.pc \in ops ELSE t.obs[i + 1].op \in ops

\* C8: a failure of the gateway resolution, of the external lookup, of the
\* read or of the write of the persisted address never fails a report cycle:
\* the cycle goes on to the listing, and when the listing succeeds it returns
\* a report with the freshly computed address ('unknown' after a failed
\* lookup); a failed read counts as no previous value, and report and change
\* flag do not depend on the outcome of the write.
C8_ToleratedFailures ==
    \A s \in Slots :
        LET t == task[s] IN
        Cycle(t) =>
            /\ \A i \in EventsOf(t, "fetch") :
                  /\ GoesOn(t, i, {"read", "readFile"})
                  /\ t.obs[i].failed => t.externalIp = Unknown
                  /\ t.externalIp = t.obs[i].result
            /\ \A i \in EventsOf(t, "readFile") :
                  /\ GoesOn(t, i, {"write", "writeFile", "list", "listContainers"})
                  /\ t.obs[i].failed => (t.lastExternalIp = Null /\ ~t.externalIpChanged)
            /\ \A i \in EventsOf(t, "writeFile") :
                  GoesOn(t, i, {"list", "listContainers"})
            /\ t.statusReport = NoReport =>
                  (\A i \in Replies(t) : t.obs[i].message = StatusUnavailable => ListingFailed(t))
            /\ ListingSucceeded(t) =>
                  LET previous == t.obs[CHOOSE i \in EventsOf(t, "readFile") : TRUE].result
                      current == t.obs[CHOOSE i \in EventsOf(t, "fetch") : TRUE].result
                      gateway == IF routeData.readable THEN t.gatewayIp ELSE Unknown
                  IN  t.statusReport =
                         [report |-> [kind |-> "status", gatewayIp |-> gateway,
                                      externalIp |-> current,
                                      count |-> Len(t.summaries),
                                      lines |-> IF t.summaries = <<>>
                                                THEN <<"(no running containers)">>
                                                ELSE t.summaries],
                          externalIp |-> current,
                          lastExternalIp |-> previous,
                          externalIpChanged |->
                              (Known(current) /\ Known(previous) /\ current # previous)]

\* The write of a changed address failed, and the cycle still returned its
\* report with the change flagged.
C8_Witness ==
    \E s \in Slots :
        LET t == task[s] IN
        /\ Cycle(t)
        /\ \E i \in EventsOf(t, "writeFile") : t.obs[i].failed
        /\ t.statusReport # NoReport
        /\ t.statusReport.externalIpChanged
        /\ t.statusReport.externalIp = Ip2
        /\ Trim(file.data) = Ip1

\* An inbound command on either surface.
Command(t) == t.surface \in {"slash", "text"}
\* A configured restriction does not match the command's origin.
Violates(t) ==
    \/ allowedChannelId # "" /\ t.channelId # allowedChannelId
    \/ allowedUserId # "" /\ t.userId # allowedUserId
\* The command was ignored: no reply, no call on any collaborator.
Ignored(t) == t.pc = "done" /\ t.obs = <<>> /\ ~t.dispatched

\* C9 as stated: a command whose origin violates a configured restriction
\* produces no reply and no side effect, and every other command is
\* dispatched.
C9_GateAsStated ==
    \A s \in Slots :
        LET t == task[s] IN
        Command(t) =>
            /\ Violates(t) => Ignored(t)
            /\ ~Violates(t) => t.dispatched

\* C9: a command whose origin violates a configured restriction produces no
\* reply and no side effect; a command that violates none is dispatched
\* provided it is a chat-input interaction (structured surface) or its author
\* is not a bot (free-text surface), and is ignored otherwise.
C9_Gate ==
    \A s \in Slots :
        LET t == task[s] IN
        Command(t) =>
            /\ Violates(t) => Ignored(t)
            /\ ~t.eligible => Ignored(t)
            /\ (~Violates(t) /\ t.eligible) => t.dispatched
            /\ (t.dispatched /\ t.surface = "slash") => (t.obs # <<>> \/ ~Ended(t))

\* A status command from a user who is not the allowed one, in the allowed
\* channel, ended without a reply or a call.
C9_Witness ==
    \E s \in Slots :
        LET t == task[s] IN
        /\ Command(t) /\ t.cmd = "status" /\ t.eligible
        /\ allowedChannelId # "" /\ t.channelId = allowedChannelId
        /\ allowedUserId # "" /\ t.userId # allowedUserId
        /\ Ignored(t)

\* What the environment decided in a call: its outcome, as opposed to the
\* call and its arguments.
OutcomeFields == {"ok", "failed", "result", "isRunning", "wasRunning", "before", "detail",
                  "statusCode"}
\* The call of an event: the operation and its arguments. A reply is the same
\* call on both surfaces (reply / editReply), and its content is compared up
\* to the command prefix it shows.
Call(e) ==
    LET fields == DOMAIN e \ OutcomeFields
        content(m) == [f \in DOMAIN m \ {"prefix"} |-> m[f]]
    IN  [f \in fields |->
            IF f = "op" /\ e.op \in {"reply", "editReply"} THEN "reply"
            ELSE IF f = "message" THEN content(e.message)
            ELSE e[f]]
Outcome(e) == [f \in DOMAIN e \intersect OutcomeFields |-> e[f]]
\* The calls of an invocation after the acknowledgement of the structured
\* surface.
Calls(t) == SelectSeq(t.obs, LAMBDA e : e.op # "deferReply")
Acknowledged(t) == \A i \in EventsOf(t, "deferReply") : t.obs[i].ok
\* Two invocations met different environments: up to some call they made the
\* same calls with the same outcomes, and then the same call had different
\* outcomes.
EnvironmentsDiffer(a, b) ==
    \E k \in 1..Len(a) :
        /\ k <= Len(b)
        /\ \A i \in 1..(k - 1) : a[i] = b[i] \/ (Call(a[i]) = Call(b[i]) /\ Outcome(a[i]) = Outcome(b[i]))
        /\ Call(a[k]) = Call(b[k])
        /\ Outcome(a[k]) # Outcome(b[k])
SameCalls(a, b) ==
    /\ Len(a) = Len(b)
    /\ \A i \in 1..Len(a) : Call(a[i]) = Call(b[i]) /\ Outcome(a[i]) = Outcome(b[i])

\* C10: the same command with the same argument from the same origin, given
\* to the structured handler and to the free-text handler, is accepted by
\* both, and in the same environment both make the same collaborator calls
\* and reply with the same content up to the command prefix.
C10_SameBehaviour ==
    LET a == task[1]
        b == task[2]
    IN  (/\ a.surface = "slash" /\ b.surface = "text"
         /\ Ended(a) /\ Ended(b)
         /\ a.dispatched /\ b.dispatched
         /\ a.optionPresent /\ Acknowledged(a)) =>
            /\ b.obs # <<>>
            /\ SameCalls(Calls(a), Calls(b)) \/ EnvironmentsDiffer(Calls(a), Calls(b))

\* The calls on the container runtime, by position.
RuntimeCalls(t) ==
    {i \in DOMAIN t.obs :
        t.obs[i].op \in {"listContainers", "inspectAll", "restart", "inspect", "stop",
                         "start", "logs"}}

\* C11: an authorized command whose name is not in the command set is
\* ignored on the free-text surface (no reply, no call), and answered on the
\* structured surface with exactly one 'Unknown command.' reply and no other
\* call.
C11_UnknownCommand ==
    \A s \in Slots :
        LET t == task[s] IN
        (Command(t) /\ t.dispatched /\ t.cmd \notin CommandSet) =>
            /\ t.surface = "text" => (t.pc = "done" /\ t.obs = <<>>)
            /\ t.surface = "slash" =>
                  /\ Len(t.obs) <= 1
                  /\ \A i \in DOMAIN t.obs :
                        t.obs[i].op = "reply" /\ t.obs[i].message = UnknownCommand
                  /\ t.obs = <<>> => (t.pc = "respond" /\ t.message = UnknownCommand)
                  /\ t.obs # <<>> => Ended(t)

\* An unknown structured command was answered.
C11_Witness ==
    \E s \in Slots :
        LET t == task[s] IN
        /\ t.surface = "slash" /\ t.dispatched /\ t.cmd \notin CommandSet
        /\ t.pc = "done"
        /\ Len(t.obs) = 1 /\ t.obs[1].op = "reply" /\ t.obs[1].ok

\* C12: restart, stop and start with a missing or empty container name, on
\* either surface: the reply is the usage string of the command, the
\* container runtime is not called, and the handler does not end in an error
\* (other than a rejected reply).
C12_UsageWhenMissing ==
    \A s \in Slots :
        LET t == task[s] IN
        (/\ Command(t) /\ t.dispatched /\ t.cmd \in {"restart", "stop", "start"}
         /\ t.target = "" /\ Acknowledged(t)) =>
            /\ RuntimeCalls(t) = {}
            /\ \A i \in Replies(t) : t.obs[i].message = Usage(t.surface, t.cmd)
            /\ Ended(t) => Cardinality(Replies(t)) = 1
            /\ t.pc = "failed" => (Replies(t) # {} /\ ~LastEvent(t).ok)

\* The calls that change the state of a container, by position.
Mutations(t) == {i \in DOMAIN t.obs : t.obs[i].op \in {"restart", "stop", "start"}}
\* The invocation answers, or has answered, with `message` only.
Answers(t, message) ==
    /\ \A i \in Replies(t) : t.obs[i].message = message
    /\ Replies(t) = {} => (t.pc = "respond" /\ t.message = message)
\* The invocation's stop (start) call succeeded.
Succeeded(t, op) == \E i \in EventsOf(t, op) : t.obs[i].ok

\* C13: stop on a container the inspection reports as not running answers
\* 'already stopped' and issues no stop call; start on a container reported
\* as running answers 'already running' and issues no start call; so a second
\* stop (start) directly after a successful first one changes nothing.
C13_Idempotence ==
    /\ \A s \in Slots :
          LET t == task[s] IN
          (t.dispatched /\ t.cmd \in {"stop", "start"}) =>
              \A i \in EventsOf(t, "inspect") :
                  /\ (t.cmd = "stop" /\ t.obs[i].ok /\ ~t.obs[i].isRunning) =>
                        (Mutations(t) = {} /\ Answers(t, Named("alreadyStopped", t.target)))
                  /\ (t.cmd = "start" /\ t.obs[i].ok /\ t.obs[i].isRunning) =>
                        (Mutations(t) = {} /\ Answers(t, Named("alreadyRunning", t.target)))
    /\ LET first == task[1]
           second == task[2]
       IN  /\ (first.cmd = "stop" /\ Succeeded(first, "stop") /\ second.dispatched) =>
                  /\ Mutations(second) = {}
                  /\ ~running[first.target]
                  /\ \A i \in EventsOf(second, "inspect") :
                        second.obs[i].ok => Answers(second, Named("alreadyStopped", second.target))
           /\ (first.cmd = "start" /\ Succeeded(first, "start") /\ second.dispatched) =>
                  /\ Mutations(second) = {}
                  /\ running[first.target]
                  /\ \A i \in EventsOf(second, "inspect") :
                        second.obs[i].ok => Answers(second, Named("alreadyRunning", second.target))

\* A stop succeeded, and the same stop given again was answered with
\* 'already stopped'.
C13_Witness ==
    /\ task[1].cmd = "stop" /\ Succeeded(task[1], "stop")
    /\ task[2].pc = "done" /\ task[2].dispatched
    /\ LastEvent(task[2]).op = "reply" /\ LastEvent(task[2]).ok
    /\ LastEvent(task[2]).message = Named("alreadyStopped", task[1].target)

\* The outcome of a call without the text of the error it raised.
OutcomeKind(e) == [f \in (DOMAIN e \intersect OutcomeFields) \ {"detail"} |-> e[f]]
\* The call as it was made: the operation and its arguments, reply content
\* included.
Made(e) == [f \in DOMAIN e \ OutcomeFields |-> e[f]]
\* Two invocations agree on their first n calls up to the texts of the errors.
AgreeUpTo(a, b, n) ==
    \A i \in 1..n : Made(a.obs[i]) = Made(b.obs[i]) /\ OutcomeKind(a.obs[i]) = OutcomeKind(b.obs[i])
\* The fixed failure messages of a command.
FailureReplies(t) ==
    CASE t.cmd = "status" -> {StatusUnavailable}
      [] t.cmd = "containers" -> {ListUnavailable}
      [] t.cmd = "uptime" -> {UptimeUnavailable}
      [] t.cmd = "ip" -> {IpUnavailable}
      [] t.cmd = "restart" -> {Named("unableToRestart", t.target)}
      [] t.cmd = "stop" -> {Named("unableToStop", t.target)}
      [] t.cmd = "start" -> {Named("unableToStart", t.target)}
      [] t.cmd = "logs" -> {Named("logsNotFound", t.target), Named("logsUnavailable", t.target)}
      [] OTHER -> {}

\* C14: no outbound message depends on the text of an error: two runs of the
\* same command that agree on which calls failed and how, and differ only in
\* the texts of the errors, make the same calls with the same replies, reports
\* and alerts; and every reply after a failed runtime call is one of the
\* fixed failure messages of the command.
C14_NoErrorContent ==
    /\ LET a == task[1]
           b == task[2]
       IN  b.surface # "none" =>
              /\ \A k \in DOMAIN a.obs \intersect DOMAIN b.obs :
                    AgreeUpTo(a, b, k - 1) => Made(a.obs[k]) = Made(b.obs[k])
              /\ (Ended(a) /\ Ended(b) /\ Len(a.obs) <= Len(b.obs) /\ AgreeUpTo(a, b, Len(a.obs)))
                    => (Len(b.obs) = Len(a.obs) /\ b.pc = a.pc)
    /\ \A s \in Slots :
          LET t == task[s] IN
          \A i \in RuntimeCalls(t), j \in Replies(t) :
              (t.obs[i].detail # "" /\ i < j) => t.obs[j].message \in FailureReplies(t)

\* The same restart failed twice with different error texts and was answered
\* twice with the same message.
C14_Witness ==
    LET a == task[1]
        b == task[2]
    IN  /\ a.cmd = "restart" /\ a.pc = "done" /\ b.pc = "done"
        /\ \E i \in EventsOf(a, "restart") :
              /\ a.obs[i].detail = "e1" /\ b.obs[i].op = "restart" /\ b.obs[i].detail = "e2"
        /\ LastEvent(a).message = LastEvent(b).message
        /\ LastEvent(a).ok /\ LastEvent(b).ok

\* A logs command past the normalization of its line count.
LogsRunning(t) ==
    /\ t.cmd = "logs" /\ t.dispatched /\ t.optionPresent
    /\ \E i \in EventsOf(t, "deferReply") : t.obs[i].ok

\* C15: for every requested line count the count passed to the runtime lies
\* in 1..50: absent, unparsable, zero and negative requests give 10 without
\* the cap flag, 1..49 give themselves without the flag, requests above 50
\* give 50 with the flag.
C15_LineCount ==
    \A s \in Slots :
        LET t == task[s]
            request == t.linesArg
        IN  LogsRunning(t) =>
            /\ t.lines \in 1..50
            /\ \A i \in EventsOf(t, "logs") : t.obs[i].tail = t.lines
            /\ \A i \in Replies(t) :
                  t.obs[i].message.kind = "logs" => t.obs[i].message.notice = t.maxEnforced
            /\ (request.kind # "int" \/ request.value <= 0) =>
                  (t.lines = 10 /\ ~t.maxEnforced)
            /\ (request.kind = "int" /\ request.value \in 1..49) =>
                  (t.lines = request.value /\ ~t.maxEnforced)
            /\ (request.kind = "int" /\ request.value > 50) =>
                  (t.lines = 50 /\ t.maxEnforced)

\* 75 lines were requested: 50 were fetched and the reply carries the notice.
C15_Witness ==
    \E s \in Slots :
        LET t == task[s] IN
        /\ LogsRunning(t) /\ t.pc = "done"
        /\ t.linesArg = [kind |-> "int", value |-> 75]
        /\ \E i \in EventsOf(t, "logs") : t.obs[i].tail = 50 /\ t.obs[i].ok
        /\ LastEvent(t).message.kind = "logs" /\ LastEvent(t).message.notice

\* C16: logs(name, lines): an inspection failing with status code 404 is
\* answered with the 'not found' message, any other inspection failure and a
\* failed fetch with the generic 'unable to fetch logs' message, and after a
\* failed inspection no fetch is issued.
C16_LogsFailures ==
    \A s \in Slots :
        LET t == task[s] IN
        LogsRunning(t) =>
            /\ \A i \in EventsOf(t, "inspect") :
                  /\ (~t.obs[i].ok /\ t.obs[i].statusCode = 404) =>
                        (Answers(t, Named("logsNotFound", t.target)) /\ EventsOf(t, "logs") = {})
                  /\ (~t.obs[i].ok /\ t.obs[i].statusCode # 404) =>
                        (Answers(t, Named("logsUnavailable", t.target))
                         /\ EventsOf(t, "logs") = {})
            /\ \A i \in EventsOf(t, "logs") :
                  ~t.obs[i].ok => Answers(t, Named("logsUnavailable", t.target))
            /\ Cardinality(Replies(t)) <= 1

\* The logs of an unknown container were asked for and 'not found' was
\* replied.
C16_Witness ==
    \E s \in Slots :
        LET t == task[s] IN
        /\ LogsRunning(t) /\ t.pc = "done" /\ t.target = "nope"
        /\ \E i \in EventsOf(t, "inspect") : t.obs[i].statusCode = 404
        /\ LastEvent(t).ok /\ LastEvent(t).message = Named("logsNotFound", "nope")

\* kept is the end of text: its runs are the last runs of text, the first of
\* them possibly shorter.
IsEndOf(kept, text) ==
    LET k == Len(kept)
        n == Len(text)
    IN  /\ k <= n
        /\ \A i \in 2..k : kept[i] = text[n - k + i]
        /\ k > 0 => (/\ kept[1].ch = text[n - k + 1].ch
                     /\ kept[1].n \in 1..text[n - k + 1].n)
Min(a, b) == IF a <= b THEN a ELSE b

\* C17: the logs reply (cap notice, if any, and fenced block) is never longer
\* than 1900 characters; the text kept is the longest end of the trimmed log
\* that fits what the notice and the fence leave of the budget; and an empty
\* or blank log output is answered with the 'has no logs' message, never with
\* an empty block.
C17_LogsBudget ==
    \A s \in Slots :
        LET t == task[s] IN
        \A i \in EventsOf(t, "logs") :
            t.obs[i].ok =>
                LET raw == t.obs[i].result
                    blank == \A k \in 1..Len(raw) : raw[k].ch \in Whitespace
                IN  /\ blank => Answers(t, Named("noLogs", t.target))
                    /\ ~blank =>
                          /\ Replies(t) = {} => (t.pc = "respond" /\ t.message.kind = "logs")
                          /\ \A j \in Replies(t) :
                                LET m == t.obs[j].message
                                    notice == IF m.notice THEN 56 ELSE 0
                                    trimmed == TrimEndRuns(raw)
                                IN  /\ m.kind = "logs"
                                    /\ m.text # <<>>
                                    /\ notice + 8 + Length(m.text) <= 1900
                                    /\ IsEndOf(m.text, trimmed)
                                    /\ Length(m.text) = Min(Length(trimmed), 1900 - notice - 8)

\* A log output longer than the budget was cut at its beginning, under the
\* cap notice.
C17_Witness ==
    \E s \in Slots :
        LET t == task[s] IN
        /\ LogsRunning(t) /\ t.pc = "done"
        /\ LastEvent(t).ok /\ LastEvent(t).message.kind = "logs"
        /\ LastEvent(t).message.notice
        /\ \E i \in EventsOf(t, "logs") :
              /\ Length(TrimEndRuns(t.obs[i].result)) > Length(LastEvent(t).message.text)
              /\ Length(LastEvent(t).message.text) = 1836

\* C18: for every host address, external address and container list the
\* formatted status report is at most 1900 characters long; when lines are
\* left out the report ends with the '...and K more' line, K being the number
\* of lines left out, or, when that line does not fit either, with the last
\* line that fitted.
C18_ReportBudget ==
    probe.stage = "output" =>
        LET layout == probe.layout
            omitted == layout.offered - layout.kept
        IN  /\ layout.length <= 1900
            /\ layout.kept \in 0..layout.offered
            /\ omitted = 0 => ~layout.summary
            /\ layout.summary => layout.remaining = omitted

\* The cycle of an invocation has got past its read of the state file.
PastRead(t) == EventsOf(t, "fetch") # {} /\ t.pc # "read"

\* One read, then at most one write.
ReadThenWrite(t) ==
    /\ Cardinality(EventsOf(t, "readFile")) <= 1
    /\ Cardinality(EventsOf(t, "writeFile")) <= 1
    /\ PastRead(t) => Cardinality(EventsOf(t, "readFile")) = 1
    /\ \A w \in EventsOf(t, "writeFile") : \E r \in EventsOf(t, "readFile") : r < w

\* The invocation of slot s completes a successful write in this step.
CompletesWrite(s) ==
    /\ task[s].pc = "write"
    /\ EventsOf(task'[s], "writeFile") # {}
    /\ ~LastEvent(task'[s]).failed

\* C19: every report cycle reads the persisted address exactly once and then
\* writes it at most once; under any interleaving of cycles every write that
\* completes replaces the persisted value by the valid external address its
\* own cycle observed, whatever the file held, and nothing else changes the
\* file: the persisted value is that of the last write to complete.
C19_LastWriterWins ==
    /\ [](\A s \in Slots : ReadThenWrite(task[s]))
    /\ [][\A s \in Slots : CompletesWrite(s) =>
              /\ Known(task[s].externalIp)
              /\ file' = [exists |-> TRUE, data |-> StateFileData(task[s].externalIp)]]_vars
    /\ [][file' # file => \E s \in Slots : CompletesWrite(s)]_vars

\* Both cycles wrote: the daily fire created the file, the status command
\* then replaced its address by a different one, which the file now holds.
C19_Witness ==
    /\ \E i \in EventsOf(task[1], "writeFile") :
          /\ ~task[1].obs[i].failed
          /\ ~task[1].obs[i].before.exists
          /\ \E j \in EventsOf(task[2], "writeFile") :
                /\ ~task[2].obs[j].failed
                /\ task[2].obs[j].before.exists
                /\ task[2].obs[j].before.data = task[1].obs[i].data
                /\ task[2].obs[j].data # task[1].obs[i].data
                /\ file.data = task[2].obs[j].data

\* C20: no invocation of a command handler, on either surface, ends with an
\* uncaught error: whatever fails while the command is handled (the runtime,
\* the status pipeline, or the sending of the reply), the handler's promise
\* does not reject.
C20_NoUncaughtError ==
    \A s \in Slots : task[s].surface \in {"slash", "text"} => task[s].pc # "failed"

\* The process holds a schedule: the client became ready in this run.
Scheduled == clock.up /\ clock.readyEvents > 0

ByteText(field, k) == ToString(16 * HexValue(field[2 * k - 1]) + HexValue(field[2 * k]))

\* The lines of a table whose destination is 00000000.
DefaultRoutes(lines) ==
    {i \in 1..Len(lines) : Len(lines[i]) >= 2 /\ lines[i][2] = DefaultDestination}

\* C22: getGatewayIpAddress returns 'unknown' if and only if the routing
\* table cannot be read or none of its lines has destination 00000000;
\* otherwise it returns the gateway field of the first such line, its four
\* bytes in reversed order, each in decimal (0101080A gives 10.8.1.1). Every
\* call returns: none raises an error.
C22_Gateway ==
    probe.stage = "gateway" =>
        LET lines == probe.route.lines
            hits == DefaultRoutes(lines)
        IN  /\ probe.result = Unknown <=> (~probe.route.readable \/ hits = {})
            /\ (probe.route.readable /\ hits # {}) =>
                  LET first == CHOOSE i \in hits : \A j \in hits : i <= j
                      gateway == lines[first][3]
                  IN  probe.result = <<ByteText(gateway, 4), ByteText(gateway, 3),
                                       ByteText(gateway, 2), ByteText(gateway, 1)>>
            /\ (probe.route.readable /\ hits # {} /\ lines[Len(lines)] = DefaultLine
                  /\ Cardinality(hits) = 1) => probe.result = <<"10", "8", "1", "1">>

\* A table with two default routes: the gateway of the first one, C0A801FE
\* read backwards, is returned as 192.168.1.254.
C22_Witness ==
    /\ probe.stage = "gateway"
    /\ probe.route.readable
    /\ probe.route.lines = <<HeaderLine, SubnetLine, OtherDefaultLine, DefaultLine>>
    /\ probe.result = <<"192", "168", "1", "254">>

\* The text has a part of this unit.
Shows(result, unit) == \E i \in DOMAIN result : result[i].unit = unit

\* The rule both statements of C23 share: days, hours and minutes are shown,
\* in this order and with their values, exactly when they are not zero.
LargerUnitsWhenNonzero ==
    LET in == probe.in
        result == probe.result
    IN  /\ Shows(result, "d") <=> in.days # 0
        /\ Shows(result, "h") <=> in.hours # 0
        /\ Shows(result, "m") <=> in.minutes # 0
        /\ \A i \in DOMAIN result :
              /\ result[i].unit \in {"d", "h", "m", "s"}
              /\ result[i].value = (CASE result[i].unit = "d" -> in.days
                                      [] result[i].unit = "h" -> in.hours
                                      [] result[i].unit = "m" -> in.minutes
                                      [] result[i].unit = "s" -> in.seconds)
        /\ \A i, j \in DOMAIN result :
              i < j => <<result[i].unit, result[j].unit>> \in
                          {<<"d", "h">>, <<"d", "m">>, <<"h", "m">>}

\* C23 as stated: 0 ms gives '0s', 90,000 ms gives '1m 30s' and 90,000,000 ms
\* gives '1d 1h 0m'; days, hours, minutes and seconds appear only when they
\* are not zero, the seconds only when all larger units are zero.
C23_DurationAsStated ==
    probe.stage = "duration" =>
        /\ probe.milliseconds = 0 => probe.result = <<[value |-> 0, unit |-> "s"]>>
        /\ probe.milliseconds = 90000 =>
              probe.result = <<[value |-> 1, unit |-> "m"], [value |-> 30, unit |-> "s"]>>
        /\ probe.milliseconds = 90000000 =>
              probe.result = <<[value |-> 1, unit |-> "d"], [value |-> 1, unit |-> "h"],
                               [value |-> 0, unit |-> "m"]>>

\* C23, amended: 0 ms gives '0s', 90,000 ms gives '1m' and 90,000,000 ms
\* gives '1d 1h'; days, hours and minutes appear, in this order, exactly when
\* they are not zero, and the seconds appear exactly when all larger units
\* are zero, then also when they are zero themselves; broken seconds are
\* dropped and a negative duration counts as zero.
C23_Duration ==
    probe.stage = "duration" =>
        /\ LargerUnitsWhenNonzero
        /\ Shows(probe.result, "s") <=>
              (probe.in.days = 0 /\ probe.in.hours = 0 /\ probe.in.minutes = 0)
        /\ probe.milliseconds <= 0 => probe.result = <<[value |-> 0, unit |-> "s"]>>
        /\ probe.milliseconds = 90000 => probe.result = <<[value |-> 1, unit |-> "m"]>>
        /\ probe.milliseconds = 90000000 =>
              probe.result = <<[value |-> 1, unit |-> "d"], [value |-> 1, unit |-> "h"]>>

\* A minute and a half was formatted: the text is '1m'.
C23_Witness ==
    /\ probe.stage = "duration"
    /\ probe.milliseconds = 90000
    /\ probe.result = <<[value |-> 1, unit |-> "m"]>>

\* C24: the cap flag of a logs request is set exactly when the requested
\* line count is greater than 50; a request for exactly 50 lines fetches 50
\* lines and its reply carries no cap notice.
C24_CapFlag ==
    \A s \in Slots :
        LET t == task[s]
            request == t.linesArg
        IN  LogsRunning(t) =>
            /\ t.maxEnforced <=> (request.kind = "int" /\ request.value > 50)
            /\ (request.kind = "int" /\ request.value = 50) =>
                  /\ t.lines = 50
                  /\ \A i \in Replies(t) :
                        t.obs[i].message.kind = "logs" => ~t.obs[i].message.notice

\* The lines of the report are the first lines of the list, in its order.
ShowsPrefix(layout) == layout.shown = [i \in 1..Len(layout.shown) |-> i]

\* C25: the container lines of a status report are a prefix, in input order,
\* of the container list: the report stops at the first line that does not
\* fit and shows no later line; the number of container lines shown plus the
\* K of the '...and K more' line, when there is one, is the number of
\* containers, which the header prints.
C25_ShownPrefix ==
    probe.stage = "output" =>
        LET layout == probe.layout
            containers == Len(probe.containerLines)
            shownContainers == IF layout.placeholder THEN 0 ELSE layout.kept
        IN  /\ ShowsPrefix(layout)
            /\ layout.count = containers
            /\ layout.summary => shownContainers + layout.remaining = containers
            /\ ~layout.summary => layout.remaining \in {0, containers - shownContainers}

\* The cycle wrote its address over the same address: the change it saw had
\* been persisted by another cycle after its read.
FoundPersisted(t) ==
    \E i \in EventsOf(t, "writeFile") :
        /\ ~t.obs[i].failed
        /\ t.obs[i].before.exists
        /\ Trim(t.obs[i].before.data) = Trim(t.obs[i].data)

\* C26: one change of the external address, from a persisted P to a newly
\* observed Q, produces at most one alert, also when report cycles overlap:
\* no two cycles hand the alert for the same P and Q to delivery when one of
\* them found Q already persisted by the time it wrote.
C26_OneAlertPerChange ==
    \A s, r \in Slots :
        (s # r /\ FoundPersisted(task[r])) =>
            \A j \in Alerts(task[s]), k \in Alerts(task[r]) :
                task[s].obs[j].message # task[r].obs[k].message

\* C27: when report cycles run one after the other, a cycle that observes
\* the same valid external address as the cycle before it reports no change
\* and sends no alert, whatever failed in the cycle before.
C27_NoRepeatedAlert ==
    LET before == task[1]
        after == task[2]
    IN  (/\ Cycle(before) /\ Ended(before)
         /\ Cycle(after) /\ HasRead(after)
         /\ Known(before.externalIp)
         /\ after.externalIp = before.externalIp) =>
            /\ ~after.externalIpChanged
            /\ Alerts(after) = {}

\* C28: under any interleaving of stop, start and restart commands for the
\* same container, a stop reaches the runtime only while the container is
\* running and a start only while it is not running.
C28_ActAsInspected ==
    \A s \in Slots :
        LET t == task[s] IN
        /\ \A i \in EventsOf(t, "stop") : t.obs[i].wasRunning
        /\ \A i \in EventsOf(t, "start") : ~t.obs[i].wasRunning

\* The commands that neither build a report nor control a container.
PlainCommands == {"help", "ping", "containers", "uptime", "ip", "logs"}

\* The calls on the persisted address, and the messages of the report path.
FileCalls(t) == {i \in DOMAIN t.obs : t.obs[i].op \in {"readFile", "writeFile"}}
ReportCalls(t) ==
    {i \in DOMAIN t.obs : t.obs[i].op \in {"sendReportMessage", "channelSend", "dmSend"}}

\* C29: the commands help, ping, containers, uptime, ip and logs never read or
\* write the persisted address, never issue restart, stop or start and never
\* hand a report or an alert to delivery; a report cycle (status command or
\* scheduled fire) never issues restart, stop or start; restart, stop and
\* start never touch the persisted address nor the report path. The persisted
\* address changes only in the write of a report cycle and a container's
\* running state only in the restart, stop or start call of such a command.
C29_Frame ==
    /\ [](\A s \in Slots :
             LET t == task[s] IN
             /\ t.cmd \in PlainCommands =>
                   (FileCalls(t) = {} /\ Mutations(t) = {} /\ ReportCalls(t) = {})
             /\ t.cmd = "status" => Mutations(t) = {}
             /\ t.cmd \in {"restart", "stop", "start"} =>
                   (FileCalls(t) = {} /\ ReportCalls(t) = {}))
    /\ [][file' # file =>
             \E s \in Slots : task[s].cmd = "status" /\ task[s].pc = "write"]_vars
    /\ [][running' # running =>
             \E s \in Slots : /\ task[s].cmd \in {"restart", "stop", "start"}
                              /\ task[s].pc = task[s].cmd]_vars

\* An uptime command listed the containers and was answered; the persisted
\* address is there, untouched.
C29_Witness ==
    \E s \in Slots :
        LET t == task[s] IN
        /\ t.cmd = "uptime" /\ t.dispatched /\ t.pc = "done"
        /\ \E i \in EventsOf(t, "listContainers") : ~t.obs[i].failed
        /\ Replies(t) # {} /\ LastEvent(t).ok
        /\ file = [exists |-> TRUE, data |-> StateFileData(Ip1)]

====
